---- MODULE Spec2Model ----
(***************************************************************************)
(* Model of the Elliptic wallet-analysis bot: the compliance evaluator     *)
(* (elliptic_client.py), the user/usage database (database.py) and the     *)
(* analysis handler with the admin commands (bot.py).                      *)
(*                                                                         *)
(* Units.  Risk scores are integers in tenths (5.0 is 50), contribution    *)
(* percentages are integers in thousandths (3.0 is 3000, 3.01 is 3010) and *)
(* a rounded percentage is in hundredths (3.0 is 300).  The clock counts   *)
(* ticks of UTC time, TicksPerDay of them to a day.                        *)
(*                                                                         *)
(* A dictionary key that may be missing is a sequence: <<>> when the key   *)
(* is absent and <<v>> when it holds v, so that dict.get(key, default) is  *)
(* Get(opt, default).                                                      *)
(***************************************************************************)
EXTENDS Integers, Sequences, FiniteSets, TLC

VARIABLES
    users,          \* table users: handle -> <<>> or <<row>>
    nextId,         \* the AUTOINCREMENT sequence of users.id
    usage_logs,     \* table usage_logs, in insertion order
    error_logs,     \* table error_logs, in insertion order
    now,            \* the UTC clock, in ticks
    tz,             \* the host's local-time offset from UTC, in ticks
    ticks,          \* how many times the clock has advanced
    reqs,           \* the analysis handlers in flight, one record per slot
    ret,            \* the last return value of a Database method call
    response_data,  \* the assessment handed to apply_compliance_rules
    evalResult      \* <<>> or <<(decision, details)>> it returned

vars == <<users, nextId, usage_logs, error_logs, now, tz, ticks, reqs, ret,
          response_data, evalResult>>

dbVars == <<users, nextId, usage_logs, error_logs>>
evalVars == <<response_data, evalResult>>

(***************************************************************************)
(* Bounds of the model.                                                    *)
(***************************************************************************)
MaxHops == 4            \* min_number_of_hops is drawn from 1..MaxHops
MaxContribs == 2        \* contributions in an assessment of several
TicksPerDay == 4         \* resolution of the clock: ticks in a day
MaxTicks == 1            \* clock advances in a behaviour
MaxLog == 2             \* rows of usage_logs
MaxErr == 1             \* rows of error_logs
MaxLimit == 1            \* limits an admin sets are drawn from 1..MaxLimit
MaxUserId == 2          \* users.id values handed out
MaxInFlight == 2        \* analysis handlers in flight at once

(***************************************************************************)
(* config.py                                                               *)
(***************************************************************************)
RISK_SCORE_THRESHOLD == 50                \* 5.0, in tenths
MAX_HOP_DISTANCE == 3
GAMBLING_HOP_LIMIT == 2
GAMBLING_CONTRIBUTION_THRESHOLD == 3000   \* 3.0, in thousandths
DEFAULT_DAILY_LIMIT == 10
DEFAULT_MONTHLY_LIMIT == 300

HIGH_RISK_CATEGORIES ==
    {"Dark Forum", "Phishing", "Dark Market - Centralised",
     "Dark Market - Decentralised", "Dark Vendor Shop", "Ponzi Scheme",
     "Ransomware", "Dark Service", "Activist Fundraising",
     "Child Sexual Abuse Material Vendor", "Terrorist Organisation",
     "OFAC Sanctioned Entity", "Criminal Organisation", "Extortion",
     "Known Criminal", "FinCEN Primary Money Laundering Concern",
     "Shielded", "Mixer", "High Transaction Fee", "Research Chemicals",
     "Charity", "Scam", "Credit Card Data Vendor", "Malware",
     "Political Campaign", "Reported Loss"}

HIGH_RISK_COUNTRIES ==
    {"IR", "CU", "VE", "KP", "SY", "MM", "UA-43", "UA-14", "UA-09",
     "UA-23", "UA-65", "RU"}

(***************************************************************************)
(* Helpers standing for Python built-ins.                                  *)
(***************************************************************************)
\* dict.get(key, default)
Get(opt, default) == IF opt = <<>> THEN default ELSE opt[1]

\* max(a, b)
Max(a, b) == IF a >= b THEN a ELSE b

\* round(x, 2) of a percentage in thousandths, in hundredths: to the nearest
\* hundredth, a tie going to the even one.
Round2(p) ==
    LET q == p \div 10
        r == p % 10
    IN  IF r > 5 \/ (r = 5 /\ q % 2 = 1) THEN q + 1 ELSE q

(***************************************************************************)
(* EllipticClient: the category table and apply_compliance_rules.          *)
(***************************************************************************)
\* The table _load_category_mapping reads: category id -> category name.
category_mapping ==
    ("7" :> "Mixer") @@ ("12" :> "Gambling") @@ ("30" :> "Exchange")

\* self.category_mapping.get(category_id, "Unknown")
CategoryName(category_id) ==
    IF category_id \in DOMAIN category_mapping
    THEN category_mapping[category_id] ELSE "Unknown"

high_risk_category_ids ==
    {cat_id \in DOMAIN category_mapping :
        category_mapping[cat_id] \in HIGH_RISK_CATEGORIES}

\* The fields a details dictionary may carry besides reason and
\* triggered_rules; rule names the f-string the reason was built from.
Reason(rule, category, country, hops, value) ==
    [rule |-> rule, category |-> category, country |-> country,
     hops |-> hops, value |-> value]

ReasonNoScore == Reason("No risk score found", "", "", 0, 0)
ReasonAllPassed == Reason("All compliance checks passed", "", "", 0, 0)
ReasonScore(risk_score) ==
    Reason("High Risk Score ({risk_score})", "", "", 0, risk_score)
ReasonCategory(category, min_hops) ==
    Reason("{category} detected within {min_hops} hops", category, "",
           min_hops, 0)
ReasonCountry(country_code, min_hops) ==
    Reason("High-risk country {country_code} detected within {min_hops} hops",
           "", country_code, min_hops, 0)
ReasonGambling(category, min_hops) ==
    Reason("Gambling found at {min_hops} hops", category, "", min_hops, 0)
ReasonGambling3(category, min_hops, indirect_percentage) ==
    Reason("Gambling at 3 hops with {indirect_percentage:.2f}% contribution",
           category, "", min_hops, indirect_percentage)

\* The state of the exposure walk: the triggered_rules dictionary and, once
\* a return statement has run, the value returned.
WalkStart(risk_score) ==
    [returned |-> FALSE,
     risk_score |-> risk_score,
     triggered_rules |-> [Source |-> <<>>, Destination |-> <<>>],
     decision |-> "Approved",
     reason |-> ReasonAllPassed]

Reject(st, triggered, reason) ==
    [st EXCEPT !.returned = TRUE, !.triggered_rules = triggered,
               !.decision = "Rejected", !.reason = reason]

\* for country_code in country_codes: the first code that rejects, or <<>>.
RECURSIVE FirstRejectingCountry(_, _)
FirstRejectingCountry(country_codes, min_hops) ==
    IF country_codes = <<>> THEN <<>>
    ELSE IF Head(country_codes) \in HIGH_RISK_COUNTRIES
            /\ min_hops <= MAX_HOP_DISTANCE
         THEN <<Head(country_codes)>>
         ELSE FirstRejectingCountry(Tail(country_codes), min_hops)

\* Rule 4, the gambling special case: "limit", "three" or "none".
GamblingRuleNonStrict(category, min_hops, indirect_percentage) ==
    IF category # "Gambling" THEN "none"
    ELSE IF min_hops <= GAMBLING_HOP_LIMIT THEN "limit"
    ELSE IF min_hops = 3
            /\ indirect_percentage >= GAMBLING_CONTRIBUTION_THRESHOLD
         THEN "three"
         ELSE "none"

GamblingRule(category, min_hops, indirect_percentage) ==
    IF category # "Gambling" THEN "none"
    ELSE IF min_hops <= GAMBLING_HOP_LIMIT THEN "limit"
    ELSE IF min_hops = 3
            /\ indirect_percentage > GAMBLING_CONTRIBUTION_THRESHOLD
         THEN "three"
         ELSE "none"

\* Rule 2's test.
CategoryRuleExclusive(category_id, min_hops) ==
    category_id \in high_risk_category_ids /\ min_hops < MAX_HOP_DISTANCE

CategoryRule(category_id, min_hops) ==
    category_id \in high_risk_category_ids /\ min_hops <= MAX_HOP_DISTANCE

\* The body of "for contribution in ...": log the hit, then rules 2, 3, 4.
VisitContributionLogOnPass(st, risk_type, category_id, category, contribution) ==
    LET min_hops == Get(contribution.min_number_of_hops, 999)
        indirect_percentage == Get(contribution.indirect_percentage, 0)
        hit == [category |-> category, hops |-> min_hops,
                contribution |-> Round2(indirect_percentage)]
        triggered == [st.triggered_rules EXCEPT
                        ![risk_type] = Append(@, hit)]
        country == Get(contribution.country, [is_list |-> TRUE, codes |-> <<>>])
        hitCountry == IF country.is_list
                      THEN FirstRejectingCountry(country.codes, min_hops)
                      ELSE <<>>
        gambling == GamblingRule(category, min_hops, indirect_percentage)
    IN  IF st.returned THEN st
        ELSE IF CategoryRule(category_id, min_hops)
        THEN Reject(st, st.triggered_rules,
                    ReasonCategory(category, min_hops))
        ELSE IF hitCountry # <<>>
        THEN Reject(st, st.triggered_rules,
                    ReasonCountry(hitCountry[1], min_hops))
        ELSE IF gambling = "limit"
        THEN Reject(st, st.triggered_rules,
                    ReasonGambling(category, min_hops))
        ELSE IF gambling = "three"
        THEN Reject(st, st.triggered_rules,
                    ReasonGambling3(category, min_hops, indirect_percentage))
        ELSE [st EXCEPT !.triggered_rules = triggered]

\* The body had it tested the countries before the category.
VisitContributionCountryFirst(st, risk_type, category_id, category, contribution) ==
    LET min_hops == Get(contribution.min_number_of_hops, 999)
        indirect_percentage == Get(contribution.indirect_percentage, 0)
        hit == [category |-> category, hops |-> min_hops,
                contribution |-> Round2(indirect_percentage)]
        triggered == [st.triggered_rules EXCEPT
                        ![risk_type] = Append(@, hit)]
        country == Get(contribution.country, [is_list |-> TRUE, codes |-> <<>>])
        hitCountry == IF country.is_list
                      THEN FirstRejectingCountry(country.codes, min_hops)
                      ELSE <<>>
        gambling == GamblingRule(category, min_hops, indirect_percentage)
    IN  IF st.returned THEN st
        ELSE IF hitCountry # <<>>
        THEN Reject(st, triggered,
                    ReasonCountry(hitCountry[1], min_hops))
        ELSE IF CategoryRule(category_id, min_hops)
        THEN Reject(st, triggered,
                    ReasonCategory(category, min_hops))
        ELSE IF gambling = "limit"
        THEN Reject(st, triggered,
                    ReasonGambling(category, min_hops))
        ELSE IF gambling = "three"
        THEN Reject(st, triggered,
                    ReasonGambling3(category, min_hops, indirect_percentage))
        ELSE [st EXCEPT !.triggered_rules = triggered]

VisitContribution(st, risk_type, category_id, category, contribution) ==
    LET min_hops == Get(contribution.min_number_of_hops, 999)
        indirect_percentage == Get(contribution.indirect_percentage, 0)
        hit == [category |-> category, hops |-> min_hops,
                contribution |-> Round2(indirect_percentage)]
        triggered == [st.triggered_rules EXCEPT
                        ![risk_type] = Append(@, hit)]
        country == Get(contribution.country, [is_list |-> TRUE, codes |-> <<>>])
        hitCountry == IF country.is_list
                      THEN FirstRejectingCountry(country.codes, min_hops)
                      ELSE <<>>
        gambling == GamblingRule(category, min_hops, indirect_percentage)
    IN  IF st.returned THEN st
        ELSE IF CategoryRule(category_id, min_hops)
        THEN Reject(st, triggered,
                    ReasonCategory(category, min_hops))
        ELSE IF hitCountry # <<>>
        THEN Reject(st, triggered,
                    ReasonCountry(hitCountry[1], min_hops))
        ELSE IF gambling = "limit"
        THEN Reject(st, triggered,
                    ReasonGambling(category, min_hops))
        ELSE IF gambling = "three"
        THEN Reject(st, triggered,
                    ReasonGambling3(category, min_hops, indirect_percentage))
        ELSE [st EXCEPT !.triggered_rules = triggered]

\* for contribution in matched_element.get("contributions", [])
RECURSIVE VisitContributions(_, _, _, _, _)
VisitContributions(st, risk_type, category_id, category, contributions) ==
    IF contributions = <<>> THEN st
    ELSE VisitContributions(
            VisitContribution(st, risk_type, category_id, category,
                              Head(contributions)),
            risk_type, category_id, category, Tail(contributions))

\* for matched_element in exposure.get("matched_elements", [])
RECURSIVE VisitElements(_, _, _)
VisitElements(st, risk_type, matched_elements) ==
    IF matched_elements = <<>> THEN st
    ELSE LET matched_element == Head(matched_elements)
             category_id == Get(matched_element.category_id, "Unknown")
         IN  VisitElements(
                VisitContributions(st, risk_type, category_id,
                                   CategoryName(category_id),
                                   matched_element.contributions),
                risk_type, Tail(matched_elements))

\* for exposure in exposure_list
RECURSIVE VisitExposures(_, _, _)
VisitExposures(st, risk_type, exposure_list) ==
    IF exposure_list = <<>> THEN st
    ELSE VisitExposures(
            VisitElements(st, risk_type, Head(exposure_list).matched_elements),
            risk_type, Tail(exposure_list))

\* What apply_compliance_rules returns: the decision ("Approved", or
\* "Rejected" for a string "Rejected - <reason>") and the details.
Verdict(decision, reason, risk_score, triggered_rules) ==
    [decision |-> decision, reason |-> reason, risk_score |-> risk_score,
     triggered_rules |-> triggered_rules]

\* apply_compliance_rules had it walked the Destination list first.
apply_compliance_rules_DestinationFirst(data) ==
    LET start == WalkStart(data.risk_score)
        walked == VisitExposures(
                    VisitExposures(start, "Destination", data.destination),
                    "Source", data.source)
    IN  IF data.risk_score = <<>>
        THEN Verdict("Approved", ReasonNoScore, <<>>,
                     start.triggered_rules)
        ELSE IF data.risk_score[1] >= RISK_SCORE_THRESHOLD
        THEN Verdict("Rejected", ReasonScore(data.risk_score[1]),
                     data.risk_score, start.triggered_rules)
        ELSE IF walked.returned
        THEN Verdict("Rejected", walked.reason, data.risk_score,
                     walked.triggered_rules)
        ELSE Verdict("Approved", ReasonAllPassed,
                     data.risk_score, walked.triggered_rules)

apply_compliance_rules_WalkFirst(data) ==
    LET start == WalkStart(data.risk_score)
        walked == VisitExposures(
                    VisitExposures(start, "Source", data.source),
                    "Destination", data.destination)
    IN  IF walked.returned
        THEN Verdict("Rejected", walked.reason, data.risk_score,
                     walked.triggered_rules)
        ELSE IF data.risk_score = <<>>
        THEN Verdict("Approved", ReasonNoScore, <<>>,
                     walked.triggered_rules)
        ELSE IF data.risk_score[1] >= RISK_SCORE_THRESHOLD
        THEN Verdict("Rejected", ReasonScore(data.risk_score[1]),
                     data.risk_score, start.triggered_rules)
        ELSE Verdict("Approved", ReasonAllPassed,
                     data.risk_score, walked.triggered_rules)

apply_compliance_rules_MissingAsZero(data) ==
    LET start == WalkStart(data.risk_score)
        walked == VisitExposures(
                    VisitExposures(start, "Source", data.source),
                    "Destination", data.destination)
    IN  IF Get(data.risk_score, 0) >= RISK_SCORE_THRESHOLD
        THEN Verdict("Rejected", ReasonScore(data.risk_score[1]),
                     data.risk_score, start.triggered_rules)
        ELSE IF walked.returned
        THEN Verdict("Rejected", walked.reason, data.risk_score,
                     walked.triggered_rules)
        ELSE Verdict("Approved",
                     IF data.risk_score = <<>> THEN ReasonNoScore
                     ELSE ReasonAllPassed,
                     data.risk_score, walked.triggered_rules)

apply_compliance_rules(data) ==
    LET start == WalkStart(data.risk_score)
        walked == VisitExposures(
                    VisitExposures(start, "Source", data.source),
                    "Destination", data.destination)
    IN  IF data.risk_score = <<>>
        THEN Verdict("Approved", ReasonNoScore, <<>>,
                     start.triggered_rules)
        ELSE IF data.risk_score[1] >= RISK_SCORE_THRESHOLD
        THEN Verdict("Rejected", ReasonScore(data.risk_score[1]),
                     data.risk_score, start.triggered_rules)
        ELSE IF walked.returned
        THEN Verdict("Rejected", walked.reason, data.risk_score,
                     walked.triggered_rules)
        ELSE Verdict("Approved", ReasonAllPassed,
                     data.risk_score, walked.triggered_rules)

(***************************************************************************)
(* The assessments the evaluator is run on.                                *)
(***************************************************************************)
ListOf(codes) == [is_list |-> TRUE, codes |-> codes]

HopChoices == {<<>>} \cup {<<h>> : h \in 1..MaxHops}

PctChoices ==
    {<<>>, <<GAMBLING_CONTRIBUTION_THRESHOLD>>,
     <<GAMBLING_CONTRIBUTION_THRESHOLD + 4>>,
     <<GAMBLING_CONTRIBUTION_THRESHOLD + 10>>}

\* risk_triggers.country: missing, a list, or (malformed) a bare string.
CountryChoices ==
    {<<>>, <<ListOf(<<"US">>)>>, <<ListOf(<<"US", "RU", "IR">>)>>,
     <<ListOf(<<"IR", "RU">>)>>, <<[is_list |-> FALSE, codes |-> <<"IR">>]>>}

\* category_id: missing, mapped (high-risk, Gambling, other) or unmapped.
CategoryChoices == {<<>>, <<"7">>, <<"12">>, <<"30">>, <<"99">>}

ScoreChoices ==
    {<<>>, <<RISK_SCORE_THRESHOLD - 1>>, <<RISK_SCORE_THRESHOLD>>,
     <<RISK_SCORE_THRESHOLD + 1>>}

Contribution(hops, pct, country) ==
    [min_number_of_hops |-> hops, indirect_percentage |-> pct,
     country |-> country]

ContributionChoices ==
    {Contribution(h, p, c) :
        h \in HopChoices, p \in PctChoices, c \in CountryChoices}

\* The contributions of the assessments that hold several: one within every
\* hop limit, one beyond them with a high-risk country, one at three hops
\* with a high-risk country second in its list.
WalkContributions ==
    {Contribution(<<GAMBLING_HOP_LIMIT>>,
                  <<GAMBLING_CONTRIBUTION_THRESHOLD>>, <<>>),
     Contribution(<<MAX_HOP_DISTANCE + 1>>,
                  <<GAMBLING_CONTRIBUTION_THRESHOLD + 10>>,
                  <<ListOf(<<"IR">>)>>),
     Contribution(<<3>>, <<GAMBLING_CONTRIBUTION_THRESHOLD + 4>>,
                  <<ListOf(<<"US", "RU">>)>>)}

WalkCategories == {<<"7">>, <<"12">>, <<"30">>}

RECURSIVE SeqsOfLen(_, _)
SeqsOfLen(S, k) ==
    IF k = 0 THEN {<<>>}
    ELSE {<<x>> \o s : x \in S, s \in SeqsOfLen(S, k - 1)}

Element(category_id, contributions) ==
    [category_id |-> category_id, contributions |-> contributions]

Exposure(matched_elements) == [matched_elements |-> matched_elements]

\* Lists of matched elements that hold k contributions between them.
RECURSIVE ElementListsWith(_)
ElementListsWith(k) ==
    IF k = 0 THEN {<<>>}
    ELSE UNION {
            {<<Element(c, cs)>> \o rest :
                c \in WalkCategories,
                cs \in SeqsOfLen(WalkContributions, j),
                rest \in ElementListsWith(k - j)} : j \in 1..k}

\* Lists of exposures that hold k contributions between them.
RECURSIVE ExposureListsWith(_)
ExposureListsWith(k) ==
    IF k = 0 THEN {<<>>}
    ELSE UNION {
            {<<Exposure(m)>> \o rest :
                m \in ElementListsWith(j),
                rest \in ExposureListsWith(k - j)} : j \in 1..k}

Assessment(risk_score, source, destination) ==
    [risk_score |-> risk_score, source |-> source,
     destination |-> destination]

\* Assessments of up to MaxContribs contributions, in every arrangement.
WalkAssessments ==
    UNION {UNION {
        {Assessment(s, src, dst) :
            s \in ScoreChoices,
            src \in ExposureListsWith(i),
            dst \in ExposureListsWith(n - i)} : i \in 0..n} : n \in 0..MaxContribs}

\* Assessments of one contribution, of every kind, on either side.
SingleAssessments ==
    {Assessment(s, <<Exposure(<<Element(c, <<x>>)>>)>>, <<>>) :
        s \in ScoreChoices, c \in CategoryChoices, x \in ContributionChoices}
    \cup
    {Assessment(s, <<>>, <<Exposure(<<Element(c, <<x>>)>>)>>) :
        s \in ScoreChoices, c \in CategoryChoices, x \in ContributionChoices}

Assessments == WalkAssessments \cup SingleAssessments

\* The assessment of the spec's end-to-end scenario: score 2.0, no exposures.
CleanAssessment == Assessment(<<20>>, <<>>, <<>>)

(***************************************************************************)
(* Database: the tables and the methods of database.py.                    *)
(***************************************************************************)
ADMIN_TELEGRAM_ID == "jcmosquera"

Handles == {ADMIN_TELEGRAM_ID, "alice"}

\* timedelta(days=1) and timedelta(days=30), in ticks.
Day == TicksPerDay
Month == 30 * TicksPerDay

\* datetime.now() is the host's local time, CURRENT_TIMESTAMP is UTC: the
\* offsets between them the model draws from (none, 12 hours either way).
TzOffsets == {0 - (TicksPerDay \div 2), 0, TicksPerDay \div 2}

\* The clock advances to just inside or outside a window's edge.
ClockSteps == {Day - 1, Day, Day + 1, Month, Month + 1}

UserRow(id, username, is_admin, daily_limit, monthly_limit) ==
    [id |-> id, telegram_username |-> username, is_admin |-> is_admin,
     is_active |-> TRUE, daily_limit |-> daily_limit,
     monthly_limit |-> monthly_limit]

\* SELECT * FROM users WHERE telegram_id = ?
get_user(telegram_id) == users[telegram_id]

\* is_user_authorized had it not looked at is_active.
is_user_authorized_AnyStatus(telegram_id) ==
    get_user(telegram_id) # <<>>

is_user_authorized(telegram_id) ==
    LET user == get_user(telegram_id)
    IN  user # <<>> /\ user[1].is_active

is_user_admin(telegram_id) ==
    LET user == get_user(telegram_id)
    IN  user # <<>> /\ user[1].is_admin

\* datetime.now() - timedelta(...): a naive local time.
time_threshold(period) ==
    IF period = "day" THEN (now + tz) - Day ELSE (now + tz) - Month

\* SELECT COUNT(*) FROM usage_logs WHERE user_id = ? AND timestamp >= ?
get_usage_count(telegram_id, period) ==
    LET user == get_user(telegram_id)
    IN  IF user = <<>> THEN 0
        ELSE IF period \notin {"day", "month"} THEN 0
        ELSE Cardinality({i \in DOMAIN usage_logs :
                /\ usage_logs[i].user_id = user[1].id
                /\ usage_logs[i].timestamp >= time_threshold(period)})

LimitResult(can_use, message, limit, remaining_daily, remaining_monthly) ==
    [can_use |-> can_use, message |-> message, limit |-> limit,
     remaining_daily |-> remaining_daily,
     remaining_monthly |-> remaining_monthly]

MsgNotAuthorized == "User not authorized"
MsgDaily == "Daily limit reached ({daily_limit} queries/day)"
MsgMonthly == "Monthly limit reached ({monthly_limit} queries/month)"
MsgOk == "OK"

\* check_usage_limit with a slip: the monthly test first; the remaining
\* figures without max(0, ...); an unknown user let through.
check_usage_limit_MonthlyFirst(telegram_id) ==
    LET user == get_user(telegram_id)
        daily_usage == get_usage_count(telegram_id, "day")
        monthly_usage == get_usage_count(telegram_id, "month")
        daily_limit == user[1].daily_limit
        monthly_limit == user[1].monthly_limit
        remaining_daily == Max(0, daily_limit - daily_usage)
        remaining_monthly == Max(0, monthly_limit - monthly_usage)
    IN  IF user = <<>> THEN LimitResult(FALSE, MsgNotAuthorized, 0, 0, 0)
        ELSE IF monthly_usage >= monthly_limit
        THEN LimitResult(FALSE, MsgMonthly, monthly_limit, remaining_daily,
                         remaining_monthly)
        ELSE IF daily_usage >= daily_limit
        THEN LimitResult(FALSE, MsgDaily, daily_limit, remaining_daily,
                         remaining_monthly)
        ELSE LimitResult(TRUE, MsgOk, 0, remaining_daily, remaining_monthly)

check_usage_limit_NoClamp(telegram_id) ==
    LET user == get_user(telegram_id)
        daily_usage == get_usage_count(telegram_id, "day")
        monthly_usage == get_usage_count(telegram_id, "month")
        daily_limit == user[1].daily_limit
        monthly_limit == user[1].monthly_limit
        remaining_daily == daily_limit - daily_usage
        remaining_monthly == monthly_limit - monthly_usage
    IN  IF user = <<>> THEN LimitResult(FALSE, MsgNotAuthorized, 0, 0, 0)
        ELSE IF daily_usage >= daily_limit
        THEN LimitResult(FALSE, MsgDaily, daily_limit, remaining_daily,
                         remaining_monthly)
        ELSE IF monthly_usage >= monthly_limit
        THEN LimitResult(FALSE, MsgMonthly, monthly_limit, remaining_daily,
                         remaining_monthly)
        ELSE LimitResult(TRUE, MsgOk, 0, remaining_daily, remaining_monthly)

check_usage_limit_UnknownAllowed(telegram_id) ==
    LET user == get_user(telegram_id)
        daily_usage == get_usage_count(telegram_id, "day")
        monthly_usage == get_usage_count(telegram_id, "month")
        daily_limit == Get(user, UserRow(0, "", FALSE, DEFAULT_DAILY_LIMIT,
                                         DEFAULT_MONTHLY_LIMIT)).daily_limit
        monthly_limit == Get(user, UserRow(0, "", FALSE, DEFAULT_DAILY_LIMIT,
                                          DEFAULT_MONTHLY_LIMIT)).monthly_limit
        remaining_daily == Max(0, daily_limit - daily_usage)
        remaining_monthly == Max(0, monthly_limit - monthly_usage)
    IN  IF daily_usage >= daily_limit
        THEN LimitResult(FALSE, MsgDaily, daily_limit, remaining_daily,
                         remaining_monthly)
        ELSE IF monthly_usage >= monthly_limit
        THEN LimitResult(FALSE, MsgMonthly, monthly_limit, remaining_daily,
                         remaining_monthly)
        ELSE LimitResult(TRUE, MsgOk, 0, remaining_daily, remaining_monthly)

\* (can_use, message, remaining_daily, remaining_monthly); limit is the
\* number the message is formatted with.
check_usage_limit(telegram_id) ==
    LET user == get_user(telegram_id)
        daily_usage == get_usage_count(telegram_id, "day")
        monthly_usage == get_usage_count(telegram_id, "month")
        daily_limit == user[1].daily_limit
        monthly_limit == user[1].monthly_limit
        remaining_daily == Max(0, daily_limit - daily_usage)
        remaining_monthly == Max(0, monthly_limit - monthly_usage)
    IN  IF user = <<>> THEN LimitResult(FALSE, MsgNotAuthorized, 0, 0, 0)
        ELSE IF daily_usage >= daily_limit
        THEN LimitResult(FALSE, MsgDaily, daily_limit, remaining_daily,
                         remaining_monthly)
        ELSE IF monthly_usage >= monthly_limit
        THEN LimitResult(FALSE, MsgMonthly, monthly_limit, remaining_daily,
                         remaining_monthly)
        ELSE LimitResult(TRUE, MsgOk, 0, remaining_daily, remaining_monthly)

\* INSERT INTO users: the UNIQUE telegram_id makes a second insert fail
\* (IntegrityError, return False); the id comes from the AUTOINCREMENT
\* sequence, which never hands a value out twice.
add_user_ok(telegram_id) == get_user(telegram_id) = <<>>

\* add_user had the statement been INSERT OR REPLACE.
add_user_Replacing(telegram_id, username, is_admin, daily_limit, monthly_limit) ==
    /\ users' = [users EXCEPT ![telegram_id] =
                    <<UserRow(nextId, username, is_admin, daily_limit,
                              monthly_limit)>>]
    /\ nextId' = nextId + 1

add_user(telegram_id, username, is_admin, daily_limit, monthly_limit) ==
    IF add_user_ok(telegram_id)
    THEN /\ users' = [users EXCEPT ![telegram_id] =
                        <<UserRow(nextId, username, is_admin, daily_limit,
                                  monthly_limit)>>]
         /\ nextId' = nextId + 1
    ELSE UNCHANGED <<users, nextId>>

\* DELETE FROM users WHERE telegram_id = ?; True when a row went.
remove_user_ok(telegram_id) == get_user(telegram_id) # <<>>

remove_user(telegram_id) ==
    /\ users' = [users EXCEPT ![telegram_id] = <<>>]
    /\ UNCHANGED nextId

\* UPDATE users SET ...: a limit of <<>> is the argument None.
update_user_limits_ok(telegram_id, daily_limit, monthly_limit) ==
    /\ ~(daily_limit = <<>> /\ monthly_limit = <<>>)
    /\ get_user(telegram_id) # <<>>

update_user_limits(telegram_id, daily_limit, monthly_limit) ==
    /\ users' =
        IF update_user_limits_ok(telegram_id, daily_limit, monthly_limit)
        THEN [users EXCEPT ![telegram_id] =
                <<[@[1] EXCEPT
                    !.daily_limit = Get(daily_limit, @),
                    !.monthly_limit = Get(monthly_limit, @)]>>]
        ELSE users
    /\ UNCHANGED nextId

\* UPDATE users SET is_active = ?; True when a row was updated.
toggle_user_status_ok(telegram_id) == get_user(telegram_id) # <<>>

toggle_user_status(telegram_id, is_active) ==
    /\ users' =
        IF toggle_user_status_ok(telegram_id)
        THEN [users EXCEPT ![telegram_id] =
                <<[@[1] EXCEPT !.is_active = is_active]>>]
        ELSE users
    /\ UNCHANGED nextId

\* The decision column: "Approved", or "Rejected - " and the reason.
DecisionText(verdict) ==
    [head |-> verdict.decision,
     reason |-> IF verdict.decision = "Rejected"
                THEN <<verdict.reason>> ELSE <<>>]

\* telegram_id is not a column: it records for the properties which
\* handle the row was logged for.
UsageRow(telegram_id, wallet_address, risk_score, decision) ==
    [user_id |-> get_user(telegram_id)[1].id, telegram_id |-> telegram_id,
     wallet_address |-> wallet_address, risk_score |-> risk_score,
     decision |-> decision, timestamp |-> now]

\* INSERT INTO usage_logs, for the user's row id; False when the user is
\* gone.  The timestamp is the column default, CURRENT_TIMESTAMP.
log_usage_ok(telegram_id) == get_user(telegram_id) # <<>>

\* log_usage had it inserted nothing.
log_usage_Dropped(telegram_id, wallet_address, risk_score, decision) ==
    UNCHANGED usage_logs

\* log_usage had it looked at the daily count again before inserting.
log_usage_Rechecked(telegram_id, wallet_address, risk_score, decision) ==
    usage_logs' =
        IF log_usage_ok(telegram_id)
            /\ get_usage_count(telegram_id, "day")
                    < get_user(telegram_id)[1].daily_limit
        THEN Append(usage_logs,
                    UsageRow(telegram_id, wallet_address, risk_score,
                             decision))
        ELSE usage_logs

\* log_usage had it inserted without looking the user up, under no id when
\* there is no users row.
log_usage_Unchecked(telegram_id, wallet_address, risk_score, decision) ==
    usage_logs' =
        Append(usage_logs,
            IF log_usage_ok(telegram_id)
            THEN UsageRow(telegram_id, wallet_address, risk_score, decision)
            ELSE [user_id |-> 0, telegram_id |-> telegram_id,
                  wallet_address |-> wallet_address,
                  risk_score |-> risk_score, decision |-> decision,
                  timestamp |-> now])

\* log_usage had it kept one row per user, overwriting the user's last.
log_usage_Replacing(telegram_id, wallet_address, risk_score, decision) ==
    usage_logs' =
        IF ~log_usage_ok(telegram_id) THEN usage_logs
        ELSE LET row == UsageRow(telegram_id, wallet_address, risk_score,
                                 decision)
                 old == {i \in DOMAIN usage_logs :
                            usage_logs[i].user_id = row.user_id}
             IN  IF old = {} THEN Append(usage_logs, row)
                 ELSE [usage_logs EXCEPT
                        ![CHOOSE i \in old : \A j \in old : j <= i] = row]

log_usage(telegram_id, wallet_address, risk_score, decision) ==
    usage_logs' =
        IF log_usage_ok(telegram_id)
        THEN Append(usage_logs,
                    UsageRow(telegram_id, wallet_address, risk_score,
                             decision))
        ELSE usage_logs

\* INSERT INTO error_logs; user_id is NULL (<<>>) for an unknown user.  The
\* timestamp column, which nothing reads, is left out.
log_error(telegram_id, error_type, error_message, wallet_address) ==
    error_logs' = Append(error_logs,
        [user_id |-> IF get_user(telegram_id) = <<>> THEN <<>>
                     ELSE <<get_user(telegram_id)[1].id>>,
         error_type |-> error_type, error_message |-> error_message,
         wallet_address |-> wallet_address])

(***************************************************************************)
(* validators.py                                                           *)
(***************************************************************************)
\* A message text, by what validate_wallet_address looks at: its length
\* after strip() and whether it is letters and digits only.  Every pattern
\* of the function matches only such text, and the last one matches all of
\* it from 26 to 90 characters.
GoodAddress == [text |-> "1A1zP1eP5QGefi2DMPTfTL5SLmv7DivfNa",
                length |-> 34, alnum |-> TRUE]
ShortAddress == [text |-> "hello", length |-> 5, alnum |-> TRUE]
Addresses == {GoodAddress, ShortAddress}

\* An address of the right length with a character no pattern allows, one
\* too long, and an Ethereum address.
SymbolAddress == [text |-> "1A1zP1eP5QGefi2DMPTfTL5SLmv7Div-Na",
                  length |-> 34, alnum |-> FALSE]
LongAddress == [text |-> "a...a (91 characters)", length |-> 91,
                alnum |-> TRUE]
EthAddress == [text |-> "0x52908400098527886E0F7030069857D2E4169EE7",
               length |-> 42, alnum |-> TRUE]
AllAddresses == Addresses \cup {SymbolAddress, LongAddress, EthAddress}

\* validate_wallet_address had it let every text through.
validate_wallet_address_Any(address) ==
    [is_valid |-> TRUE, error_message |-> ""]

validate_wallet_address(address) ==
    IF address.length = 0
    THEN [is_valid |-> FALSE,
          error_message |-> "Wallet address cannot be empty"]
    ELSE IF address.length < 26 \/ address.length > 90
    THEN [is_valid |-> FALSE,
          error_message |-> "Invalid wallet address length"]
    ELSE IF address.alnum
    THEN [is_valid |-> TRUE, error_message |-> ""]
    ELSE [is_valid |-> FALSE,
          error_message |->
            "Invalid wallet address format. Please provide a valid cryptocurrency address."]

\* validate_telegram_username: 5 to 32 letters, digits and underscores.
Usernames == Handles \cup {"bob"}
validate_telegram_username(username) == username \in Handles

\* validate_limit(limit, 1, 10000)
validate_limit(limit) == limit >= 1 /\ limit <= 10000

(***************************************************************************)
(* bot.py: the analysis handler, one coroutine per slot.  A handler runs   *)
(* without interruption from one await to the next.                        *)
(***************************************************************************)
Slots == 1..MaxInFlight

NoLimitResult == LimitResult(FALSE, "", 0, 0, 0)

IdleReq ==
    [pc |-> "idle", telegram_id |-> ADMIN_TELEGRAM_ID,
     wallet_address |-> GoodAddress, limit |-> NoLimitResult,
     rows_seen |-> 0, outcome |-> "", message |-> "", logged |-> FALSE]

\* What elliptic.analyze_wallet may return: (True, result, None) or
\* (False, None, error_message).
ApiResponses ==
    {CleanAssessment, Assessment(<<RISK_SCORE_THRESHOLD + 1>>, <<>>, <<>>)}

ApiErrors == {"API request timed out. Please try again."}

\* Every (False, None, error_msg) of EllipticClient.analyze_wallet: HTTP
\* 401, 429, 5xx, a reply that is not a dictionary, a timeout, a connection
\* error, another request error (any other 4xx), a reply that does not
\* parse, anything else.
UpstreamErrors ==
    {"API authentication failed. Please check your credentials.",
     "API rate limit exceeded. Please try again later.",
     "Elliptic API server error (HTTP {response.status_code})",
     "Invalid API response format",
     "API request timed out. Please try again.",
     "Failed to connect to Elliptic API. Please check your internet connection.",
     "API request failed: {str(e)}",
     "Failed to parse API response",
     "Unexpected error during wallet analysis: {str(e)}"}

\* Replies that end in each return of apply_compliance_rules: approved,
\* no score, score rule, category, country, gambling at the hop limit and
\* at three hops.
UpstreamResponses ==
    LET One(score, category_id, hops, pct, country) ==
            Assessment(score,
                <<Exposure(<<Element(category_id,
                    <<Contribution(hops, pct, country)>>)>>)>>, <<>>)
    IN  {CleanAssessment,
         Assessment(<<>>, <<>>, <<>>),
         Assessment(<<RISK_SCORE_THRESHOLD + 1>>, <<>>, <<>>),
         One(<<20>>, <<"30">>, <<5>>, <<1000>>, <<>>),
         One(<<20>>, <<"7">>, <<1>>, <<>>, <<>>),
         One(<<20>>, <<"30">>, <<2>>, <<>>, <<ListOf(<<"US", "IR">>)>>),
         One(<<20>>, <<"12">>, <<2>>, <<>>, <<>>),
         One(<<20>>, <<"12">>, <<3>>,
             <<GAMBLING_CONTRIBUTION_THRESHOLD + 4>>, <<>>)}

\* Who sends addresses, and whom the admin's /setlimit names.
Requesters == Handles \ {ADMIN_TELEGRAM_ID}

\* What is kept of a handler that has returned: whom it served, what
\* check_usage_limit told it and how it ended.
Done(req, outcome) ==
    IF outcome \in {"limit_reached", "analyzed"}
    THEN [IdleReq EXCEPT !.pc = "done", !.telegram_id = req.telegram_id,
                         !.limit = req.limit, !.rows_seen = req.rows_seen,
                         !.outcome = outcome]
    ELSE [IdleReq EXCEPT !.pc = "done", !.telegram_id = req.telegram_id,
                         !.outcome = outcome]

\* A new handler takes the first slot that holds none.
FreeSlot(p) ==
    /\ reqs[p].pc \in {"idle", "done"}
    /\ \A q \in Slots : q < p => reqs[q].pc \notin {"idle", "done"}

\* analyze_wallet up to its first await: authorization, validation, limits.
Start(p, telegram_id, wallet_address) ==
    /\ FreeSlot(p)
    /\ LET base == [IdleReq EXCEPT !.telegram_id = telegram_id,
                                   !.wallet_address = wallet_address]
           valid == validate_wallet_address(wallet_address)
           limit == check_usage_limit(telegram_id)
       IN  reqs' = [reqs EXCEPT ![p] =
             IF ~is_user_authorized(telegram_id)
             THEN Done(base, "not_authorized")
             ELSE IF ~valid.is_valid
             THEN [base EXCEPT !.pc = "validation_reply",
                               !.message = valid.error_message]
             ELSE IF ~limit.can_use
             THEN Done([base EXCEPT !.limit = limit], "limit_reached")
             ELSE [base EXCEPT !.pc = "analyzing", !.limit = limit,
                               !.rows_seen = Len(usage_logs)]]
    /\ UNCHANGED <<dbVars, now, tz, ticks, ret, evalVars>>

\* After the reply to an invalid address: db.log_error, return.
LogValidationError(p) ==
    /\ reqs[p].pc = "validation_reply"
    /\ Len(error_logs) < MaxErr
    /\ log_error(reqs[p].telegram_id, "VALIDATION_ERROR", reqs[p].message,
                 reqs[p].wallet_address)
    /\ reqs' = [reqs EXCEPT ![p] = Done(@, "invalid_address")]
    /\ UNCHANGED <<users, nextId, usage_logs, now, tz, ticks, ret, evalVars>>

\* After "Analyzing wallet address...": the API call succeeds, the rules are
\* applied and the usage is logged, up to the await of the result message.
Analyze(p, data) ==
    /\ reqs[p].pc = "analyzing"
    /\ LET verdict == apply_compliance_rules(data)
       IN  /\ log_usage(reqs[p].telegram_id, reqs[p].wallet_address,
                        verdict.risk_score, DecisionText(verdict))
           /\ reqs' = [reqs EXCEPT ![p] =
                        [Done(@, "analyzed") EXCEPT
                            !.logged = log_usage_ok(reqs[p].telegram_id)]]
    /\ UNCHANGED <<users, nextId, error_logs, now, tz, ticks, ret, evalVars>>

AnalyzeOk(p, data) ==
    /\ log_usage_ok(reqs[p].telegram_id) => Len(usage_logs) < MaxLog
    /\ Analyze(p, data)

\* The API call fails: the failure message is awaited, the error logged after.
AnalyzeFailed(p, error_message) ==
    /\ reqs[p].pc = "analyzing"
    /\ reqs' = [reqs EXCEPT ![p].pc = "api_failed_reply",
                            ![p].message = error_message]
    /\ UNCHANGED <<dbVars, now, tz, ticks, ret, evalVars>>

\* The failed request had it been charged to the quota.
LogApiError_Charged(p) ==
    /\ reqs[p].pc = "api_failed_reply"
    /\ Len(error_logs) < MaxErr
    /\ log_error(reqs[p].telegram_id, "API_ERROR", reqs[p].message,
                 reqs[p].wallet_address)
    /\ log_usage(reqs[p].telegram_id, reqs[p].wallet_address, <<>>,
                 [head |-> "Error", reason |-> <<>>])
    /\ reqs' = [reqs EXCEPT ![p] = Done(@, "api_error")]
    /\ UNCHANGED <<users, nextId, now, tz, ticks, ret, evalVars>>

LogApiError(p) ==
    /\ reqs[p].pc = "api_failed_reply"
    /\ Len(error_logs) < MaxErr
    /\ log_error(reqs[p].telegram_id, "API_ERROR", reqs[p].message,
                 reqs[p].wallet_address)
    /\ reqs' = [reqs EXCEPT ![p] = Done(@, "api_error")]
    /\ UNCHANGED <<users, nextId, usage_logs, now, tz, ticks, ret, evalVars>>

(***************************************************************************)
(* bot.py: the admin commands.  None awaits between its checks and its     *)
(* database call.                                                          *)
(***************************************************************************)
adduser_command(caller, new_user) ==
    /\ is_user_admin(caller)
    /\ validate_telegram_username(new_user)
    /\ add_user_ok(new_user) => nextId <= MaxUserId
    /\ add_user(new_user, new_user, FALSE, DEFAULT_DAILY_LIMIT,
                DEFAULT_MONTHLY_LIMIT)
    /\ UNCHANGED <<usage_logs, error_logs, now, tz, ticks, reqs, ret,
                   evalVars>>

\* removeuser_command had it not looked whether its target is an admin.
removeuser_command_AnyTarget(caller, user_to_remove) ==
    /\ is_user_admin(caller)
    /\ remove_user(user_to_remove)
    /\ UNCHANGED <<usage_logs, error_logs, now, tz, ticks, reqs, ret,
                   evalVars>>

\* "Cannot remove an admin user." is a reply and a return.
removeuser_command(caller, user_to_remove) ==
    /\ is_user_admin(caller)
    /\ IF is_user_admin(user_to_remove)
       THEN UNCHANGED <<users, nextId>>
       ELSE remove_user(user_to_remove)
    /\ UNCHANGED <<usage_logs, error_logs, now, tz, ticks, reqs, ret,
                   evalVars>>

setlimit_command(caller, username, daily_limit, monthly_limit) ==
    /\ is_user_admin(caller)
    /\ validate_limit(daily_limit)
    /\ validate_limit(monthly_limit)
    /\ update_user_limits(username, <<daily_limit>>, <<monthly_limit>>)
    /\ UNCHANGED <<usage_logs, error_logs, now, tz, ticks, reqs, ret,
                   evalVars>>

\* toggle_user_status has no caller in bot.py: it is a call on the Database
\* by whoever else holds the database file.
CallToggleUserStatus(h, is_active) ==
    /\ toggle_user_status(h, is_active)
    /\ ret' = <<>>
    /\ UNCHANGED <<usage_logs, error_logs, now, tz, ticks, reqs, evalVars>>

\* Time passes.
Tick(d) ==
    /\ ticks < MaxTicks
    /\ now' = now + d
    /\ ticks' = ticks + 1
    /\ ret' = <<>>
    /\ UNCHANGED <<dbVars, tz, reqs, evalVars>>

(***************************************************************************)
(* Spec: the bot.  init_admin has run on a new database.                   *)
(***************************************************************************)
Init ==
    /\ users = [h \in Handles |->
                 IF h = ADMIN_TELEGRAM_ID
                 THEN <<UserRow(1, ADMIN_TELEGRAM_ID, TRUE, 999, 9999)>>
                 ELSE <<>>]
    /\ nextId = 2
    /\ usage_logs = <<>>
    /\ error_logs = <<>>
    /\ now = 0
    /\ tz \in TzOffsets
    /\ ticks = 0
    /\ reqs = [p \in Slots |-> IdleReq]
    /\ ret = <<>>
    /\ response_data = CleanAssessment
    /\ evalResult = <<>>

Next ==
    \/ \E p \in Slots, h \in Requesters, a \in Addresses : Start(p, h, a)
    \/ \E p \in Slots : LogValidationError(p)
    \/ \E p \in Slots, data \in ApiResponses : AnalyzeOk(p, data)
    \/ \E p \in Slots, e \in ApiErrors : AnalyzeFailed(p, e)
    \/ \E p \in Slots : LogApiError(p)
    \/ \E c \in Handles, u \in Usernames : adduser_command(c, u)
    \/ \E c \in Handles, u \in Handles : removeuser_command(c, u)
    \/ \E c \in Handles, u \in Requesters, d \in 0..MaxLimit,
          m \in 0..MaxLimit :
            setlimit_command(c, u, d, m)
    \/ \E h \in Requesters, b \in BOOLEAN : CallToggleUserStatus(h, b)
    \/ \E d \in ClockSteps : Tick(d)

Spec == Init /\ [][Next]_vars

(***************************************************************************)
(* SpecSeq: the bot as main builds it, without concurrent_updates: the     *)
(* dispatcher runs one handler to its end before it starts the next, so    *)
(* only slot 1 is used and an admin command runs between analysis          *)
(* requests.  Other holders of the database file do not wait.  Addresses,  *)
(* replies and failures are drawn from the full sets; in exchange the      *)
(* requests all fall in one instant on a host whose clock is on UTC.       *)
(***************************************************************************)
InitSeq == Init /\ tz = 0

NoHandlerRunning == \A q \in Slots : reqs[q].pc \in {"idle", "done"}

SeqStart(h, a) == Start(1, h, a)
SeqLogValidationError == LogValidationError(1)
SeqAnalyzeOk(data) == AnalyzeOk(1, data)
SeqAnalyzeFailed(e) == AnalyzeFailed(1, e)
SeqLogApiError == LogApiError(1)
SeqAdduser(c, u) == NoHandlerRunning /\ adduser_command(c, u)
SeqRemoveuser(c, u) == NoHandlerRunning /\ removeuser_command(c, u)
SeqSetlimit(c, u, d, m) == NoHandlerRunning /\ setlimit_command(c, u, d, m)

NextSeq ==
    \/ \E h \in Requesters, a \in AllAddresses : SeqStart(h, a)
    \/ SeqLogValidationError
    \/ \E data \in UpstreamResponses : SeqAnalyzeOk(data)
    \/ \E e \in UpstreamErrors : SeqAnalyzeFailed(e)
    \/ SeqLogApiError
    \/ \E c \in Handles, u \in Usernames : SeqAdduser(c, u)
    \/ \E c \in Handles, u \in Handles : SeqRemoveuser(c, u)
    \/ \E c \in Handles, u \in Requesters, d \in 0..MaxLimit,
          m \in 0..MaxLimit :
            SeqSetlimit(c, u, d, m)
    \/ \E h \in Requesters, b \in BOOLEAN : CallToggleUserStatus(h, b)

SpecSeq == InitSeq /\ [][NextSeq]_vars

(***************************************************************************)
(* database.py and bot.py: the statistics of one user.                     *)
(***************************************************************************)
\* sum(v for k, v in d.items() if k in keys)
RECURSIVE SumOver(_, _)
SumOver(d, keys) ==
    IF keys = {} THEN 0
    ELSE LET k == CHOOSE x \in keys : TRUE
         IN  d[k] + SumOver(d, keys \ {k})

\* SELECT decision, COUNT(*) ... WHERE user_id = ? AND timestamp >=
\* datetime('now', '-30 days') GROUP BY decision: SQLite's now is UTC, as
\* the timestamps are.
RecentDecisions(user_id) ==
    LET recent == {i \in DOMAIN usage_logs :
                    /\ usage_logs[i].user_id = user_id
                    /\ usage_logs[i].timestamp >= now - Month}
    IN  [d \in {usage_logs[i].decision : i \in recent} |->
            Cardinality({i \in recent : usage_logs[i].decision = d})]

\* Database.get_user_usage_stats: {} (<<>>) for an unknown user.
get_user_usage_stats(telegram_id) ==
    LET user == get_user(telegram_id)
    IN  IF user = <<>> THEN <<>>
        ELSE <<[telegram_id |-> telegram_id,
                daily_usage |-> get_usage_count(telegram_id, "day"),
                daily_limit |-> user[1].daily_limit,
                monthly_usage |-> get_usage_count(telegram_id, "month"),
                monthly_limit |-> user[1].monthly_limit,
                total_usage |-> Cardinality({i \in DOMAIN usage_logs :
                                    usage_logs[i].user_id = user[1].id}),
                decisions |-> RecentDecisions(user[1].id)]>>

\* The decision strings: "Approved" is the text of a decision without a
\* reason, and a text starts with "Approved" or "Rejected" by its head.
IsApprovedText(k) == k.head = "Approved" /\ k.reason = <<>>
StartsWithApproved(k) == k.head = "Approved"
StartsWithRejected(k) == k.head = "Rejected"

\* The two figures of the "Last 30 Days" block of the reply.
ApprovedFigure(decisions) ==
    SumOver(decisions, {k \in DOMAIN decisions : IsApprovedText(k)})
        + SumOver(decisions, {k \in DOMAIN decisions : StartsWithApproved(k)})

RejectedFigure(decisions) ==
    SumOver(decisions, {k \in DOMAIN decisions : StartsWithRejected(k)})

\* stats_command had it taken the Approved figure from the rows that
\* start with "Approved" alone.
StatsReply_CountedOnce(telegram_id) ==
    LET stats == get_user_usage_stats(telegram_id)
    IN  IF ~is_user_authorized(telegram_id) \/ stats = <<>> THEN <<>>
        ELSE <<[daily_usage |-> stats[1].daily_usage,
                monthly_usage |-> stats[1].monthly_usage,
                total_usage |-> stats[1].total_usage,
                approved |-> SumOver(stats[1].decisions,
                                     {k \in DOMAIN stats[1].decisions :
                                        StartsWithApproved(k)}),
                rejected |-> RejectedFigure(stats[1].decisions)]>>

\* The figures stats_command replies with; <<>> when it replies that the
\* caller is not authorized or that the statistics are unavailable.
StatsReply(telegram_id) ==
    LET stats == get_user_usage_stats(telegram_id)
    IN  IF ~is_user_authorized(telegram_id) \/ stats = <<>> THEN <<>>
        ELSE <<[daily_usage |-> stats[1].daily_usage,
                monthly_usage |-> stats[1].monthly_usage,
                total_usage |-> stats[1].total_usage,
                approved |-> ApprovedFigure(stats[1].decisions),
                rejected |-> RejectedFigure(stats[1].decisions)]>>

stats_command(caller) ==
    /\ ret' = <<[telegram_id |-> caller, stats |-> StatsReply(caller)]>>
    /\ UNCHANGED <<dbVars, now, tz, ticks, reqs, evalVars>>

(***************************************************************************)
(* SpecQuota and SpecQuotaSeq: the bot serving valid addresses with the    *)
(* API answering, over time and on hosts of every clock offset, for the    *)
(* counts of usage rows against the limits.  The admin adds users and      *)
(* sets a user's limits before the first request is served; nobody is      *)
(* removed; anyone may ask for the statistics.  SpecQuota lets            *)
(* MaxInFlight handlers interleave; SpecQuotaSeq runs one handler at a     *)
(* time, as the dispatcher main builds does.                               *)
(***************************************************************************)
MaxQuotaLog == 3         \* rows of usage_logs in SpecQuota and SpecQuotaSeq

\* Limits the admin sets: the daily ones, and for the month also the
\* default.
QuotaDailyLimits == 1..MaxLimit
QuotaMonthlyLimits == (1..MaxLimit) \cup {DEFAULT_MONTHLY_LIMIT}

\* The clock also stops just inside the monthly window.
QuotaClockSteps == ClockSteps \cup {Month - 1}

QuotaStart(p, h) == Start(p, h, GoodAddress)

QuotaAnalyzeOk(p, data) ==
    /\ Len(usage_logs) < MaxQuotaLog
    /\ Analyze(p, data)

QuotaAdduser(c, u) == adduser_command(c, u)

QuotaSetlimit(c, u, d, m) ==
    /\ usage_logs = <<>>
    /\ NoHandlerRunning
    /\ setlimit_command(c, u, d, m)

NextQuota ==
    \/ \E p \in Slots, h \in Requesters : QuotaStart(p, h)
    \/ \E p \in Slots, data \in ApiResponses : QuotaAnalyzeOk(p, data)
    \/ \E c \in Handles, u \in Usernames : QuotaAdduser(c, u)
    \/ \E c \in Handles, u \in Requesters, d \in QuotaDailyLimits,
          m \in QuotaMonthlyLimits :
            QuotaSetlimit(c, u, d, m)
    \/ \E h \in Handles : stats_command(h)
    \/ \E d \in QuotaClockSteps : Tick(d)

SpecQuota == Init /\ [][NextQuota]_vars

QuotaSeqStats(h) == NoHandlerRunning /\ stats_command(h)

QuotaSeqAdduser(c, u) == NoHandlerRunning /\ QuotaAdduser(c, u)

NextQuotaSeq ==
    \/ \E h \in Requesters : QuotaStart(1, h)
    \/ \E data \in ApiResponses : QuotaAnalyzeOk(1, data)
    \/ \E c \in Handles, u \in Usernames : QuotaSeqAdduser(c, u)
    \/ \E c \in Handles, u \in Requesters, d \in QuotaDailyLimits,
          m \in QuotaMonthlyLimits :
            QuotaSetlimit(c, u, d, m)
    \/ \E h \in Handles : QuotaSeqStats(h)
    \/ \E d \in QuotaClockSteps : Tick(d)

SpecQuotaSeq == Init /\ [][NextQuotaSeq]_vars

(***************************************************************************)
(* SpecDb: a Database object under the calls of any client.                *)
(***************************************************************************)
DbClients == {"alice"}

\* Limits a client passes: None or a number.
LimitArgs == {<<>>} \cup {<<n>> : n \in 0..MaxLimit}

InitDb ==
    /\ users = [h \in Handles |-> <<>>]
    /\ nextId = 1
    /\ usage_logs = <<>>
    /\ error_logs = <<>>
    /\ now = 0
    /\ tz \in TzOffsets
    /\ ticks = 0
    /\ reqs = [p \in Slots |-> IdleReq]
    /\ ret = <<>>
    /\ response_data = CleanAssessment
    /\ evalResult = <<>>

CallAddUser(h) ==
    /\ add_user_ok(h) => nextId <= MaxUserId
    /\ add_user(h, h, FALSE, DEFAULT_DAILY_LIMIT, DEFAULT_MONTHLY_LIMIT)
    /\ ret' = <<[telegram_id |-> h, added |-> add_user_ok(h)]>>
    /\ UNCHANGED <<usage_logs, error_logs, now, tz, ticks, reqs, evalVars>>

CallRemoveUser(h) ==
    /\ remove_user(h)
    /\ ret' = <<>>
    /\ UNCHANGED <<usage_logs, error_logs, now, tz, ticks, reqs, evalVars>>

CallUpdateUserLimits(h, d, m) ==
    /\ update_user_limits(h, d, m)
    /\ ret' = <<>>
    /\ UNCHANGED <<usage_logs, error_logs, now, tz, ticks, reqs, evalVars>>

CallLogUsage(h) ==
    /\ log_usage_ok(h) => Len(usage_logs) < MaxLog
    /\ log_usage(h, GoodAddress, <<20>>, [head |-> "Approved", reason |-> <<>>])
    /\ ret' = <<>>
    /\ UNCHANGED <<users, nextId, error_logs, now, tz, ticks, reqs, evalVars>>

CallCheckUsageLimit(h) ==
    /\ ret' = <<[telegram_id |-> h, result |-> check_usage_limit(h)]>>
    /\ UNCHANGED <<dbVars, now, tz, ticks, reqs, evalVars>>

NextDb ==
    \/ \E h \in DbClients : CallAddUser(h)
    \/ \E h \in DbClients : CallRemoveUser(h)
    \/ \E h \in DbClients, d \in LimitArgs, m \in LimitArgs :
            CallUpdateUserLimits(h, d, m)
    \/ \E h \in DbClients : CallLogUsage(h)
    \/ \E h \in DbClients : CallCheckUsageLimit(h)
    \/ \E h \in DbClients, b \in BOOLEAN : CallToggleUserStatus(h, b)
    \/ \E d \in ClockSteps : Tick(d)

SpecDb == InitDb /\ [][NextDb]_vars

(***************************************************************************)
(* SpecEval: apply_compliance_rules on every assessment of the bounds.     *)
(***************************************************************************)
InitEval ==
    /\ users = [h \in Handles |-> <<>>]
    /\ nextId = 1
    /\ usage_logs = <<>>
    /\ error_logs = <<>>
    /\ now = 0
    /\ tz = 0
    /\ ticks = 0
    /\ reqs = [p \in Slots |-> IdleReq]
    /\ ret = <<>>
    /\ response_data \in Assessments
    /\ evalResult = <<>>

Evaluate ==
    /\ evalResult = <<>>
    /\ evalResult' = <<apply_compliance_rules(response_data)>>
    /\ UNCHANGED <<dbVars, now, tz, ticks, reqs, ret, response_data>>

NextEval == Evaluate

SpecEval == InitEval /\ [][NextEval]_vars

(***************************************************************************)
(* Properties of apply_compliance_rules (SpecEval).                        *)
(***************************************************************************)
Evaluated == evalResult # <<>>
Result == evalResult[1]

NoHits == [Source |-> <<>>, Destination |-> <<>>]

\* The contributions of an assessment in the order of the walk: Source
\* before Destination, then exposure, matched element and contribution as
\* given.  Each comes with its side and its element's category id.
RECURSIVE FlatContributions(_, _, _)
FlatContributions(risk_type, category_id, contributions) ==
    IF contributions = <<>> THEN <<>>
    ELSE <<[risk_type |-> risk_type, category_id |-> category_id,
            contribution |-> Head(contributions)]>>
         \o FlatContributions(risk_type, category_id, Tail(contributions))

RECURSIVE FlatElements(_, _)
FlatElements(risk_type, matched_elements) ==
    IF matched_elements = <<>> THEN <<>>
    ELSE FlatContributions(risk_type,
                           Get(Head(matched_elements).category_id, "Unknown"),
                           Head(matched_elements).contributions)
         \o FlatElements(risk_type, Tail(matched_elements))

RECURSIVE FlatExposures(_, _)
FlatExposures(risk_type, exposure_list) ==
    IF exposure_list = <<>> THEN <<>>
    ELSE FlatElements(risk_type, Head(exposure_list).matched_elements)
         \o FlatExposures(risk_type, Tail(exposure_list))

WalkOrder(data) ==
    FlatExposures("Source", data.source)
    \o FlatExposures("Destination", data.destination)

HopsOf(item) == Get(item.contribution.min_number_of_hops, 999)
PctOf(item) == Get(item.contribution.indirect_percentage, 0)
CodesOf(item) ==
    LET c == Get(item.contribution.country, ListOf(<<>>))
    IN  IF c.is_list THEN c.codes ELSE <<>>

\* The three rejection conditions of the spec, on one walked contribution.
IsHighRiskCategory(item) ==
    CategoryName(item.category_id) \in HIGH_RISK_CATEGORIES
HasHighRiskCountry(item) ==
    \E i \in DOMAIN CodesOf(item) : CodesOf(item)[i] \in HIGH_RISK_COUNTRIES
IsGambling(item) == CategoryName(item.category_id) = "Gambling"

MatchesCategoryRule(item) ==
    IsHighRiskCategory(item) /\ HopsOf(item) <= MAX_HOP_DISTANCE
MatchesCountryRule(item) ==
    HasHighRiskCountry(item) /\ HopsOf(item) <= MAX_HOP_DISTANCE
MatchesGamblingRule(item) ==
    /\ IsGambling(item)
    /\ \/ HopsOf(item) <= GAMBLING_HOP_LIMIT
       \/ HopsOf(item) = 3 /\ PctOf(item) > GAMBLING_CONTRIBUTION_THRESHOLD
MatchesSomeRule(item) ==
    MatchesCategoryRule(item) \/ MatchesCountryRule(item)
        \/ MatchesGamblingRule(item)

\* The hit the walk logs for a contribution.
HitOf(item) ==
    [category |-> CategoryName(item.category_id), hops |-> HopsOf(item),
     contribution |-> Round2(PctOf(item))]

ScoreBelowThreshold(data) ==
    data.risk_score # <<>> /\ data.risk_score[1] < RISK_SCORE_THRESHOLD

\* C1: an assessment whose risk score is present and at or above the
\* threshold is Rejected with the reason citing the score and both
\* triggered-rules lists empty, whatever its exposures hold.
C1_ScoreRuleFirst ==
    (Evaluated /\ response_data.risk_score # <<>>
        /\ response_data.risk_score[1] >= RISK_SCORE_THRESHOLD)
    => /\ Result.decision = "Rejected"
       /\ Result.reason = ReasonScore(response_data.risk_score[1])
       /\ Result.triggered_rules = NoHits

\* The score rule has decided an assessment holding a contribution that
\* would itself be rejected.
C1_Witness ==
    /\ Evaluated
    /\ response_data.risk_score = <<RISK_SCORE_THRESHOLD>>
    /\ \E i \in DOMAIN WalkOrder(response_data) :
            MatchesSomeRule(WalkOrder(response_data)[i])
    /\ Result.decision = "Rejected"
    /\ Result.triggered_rules = NoHits

\* C2: an assessment without a risk score is Approved with the reason "No
\* risk score found" and empty triggered rules, whatever its exposures hold.
C2_MissingScoreApproved ==
    (Evaluated /\ response_data.risk_score = <<>>)
    => /\ Result.decision = "Approved"
       /\ Result.reason = ReasonNoScore
       /\ Result.risk_score = <<>>
       /\ Result.triggered_rules = NoHits

C2_Witness ==
    /\ Evaluated
    /\ response_data.risk_score = <<>>
    /\ \E i \in DOMAIN WalkOrder(response_data) :
            MatchesSomeRule(WalkOrder(response_data)[i])
    /\ Result.decision = "Approved"

\* C3: with the score below the threshold and a high-risk category (no
\* high-risk country, not Gambling) as the only contribution a rule looks
\* at, the assessment is Rejected when its hops are at most MAX_HOP_DISTANCE
\* and Approved when they are more.
OnlyHighRiskCategoryAt(data, i) ==
    LET walk == WalkOrder(data)
    IN  /\ IsHighRiskCategory(walk[i])
        /\ ~HasHighRiskCountry(walk[i])
        /\ ~IsGambling(walk[i])
        /\ \A j \in DOMAIN walk \ {i} :
            /\ ~IsHighRiskCategory(walk[j])
            /\ ~HasHighRiskCountry(walk[j])
            /\ ~IsGambling(walk[j])

C3_CategoryHopBoundary ==
    (Evaluated /\ ScoreBelowThreshold(response_data))
    => \A i \in DOMAIN WalkOrder(response_data) :
        OnlyHighRiskCategoryAt(response_data, i)
        => LET h == HopsOf(WalkOrder(response_data)[i])
           IN  /\ h <= MAX_HOP_DISTANCE
                    => /\ Result.decision = "Rejected"
                       /\ Result.reason =
                            ReasonCategory(
                                CategoryName(
                                    WalkOrder(response_data)[i].category_id),
                                h)
               /\ h >= MAX_HOP_DISTANCE + 1 => Result.decision = "Approved"

\* A high-risk category exactly at the hop limit has been rejected.
C3_Witness ==
    /\ Evaluated
    /\ ScoreBelowThreshold(response_data)
    /\ \E i \in DOMAIN WalkOrder(response_data) :
        /\ OnlyHighRiskCategoryAt(response_data, i)
        /\ HopsOf(WalkOrder(response_data)[i]) = MAX_HOP_DISTANCE
    /\ Result.decision = "Rejected"

\* C4: a Gambling contribution that matches neither the category rule nor
\* the country rule is rejected exactly when its hops are at most
\* GAMBLING_HOP_LIMIT, or are 3 with a percentage strictly above
\* GAMBLING_CONTRIBUTION_THRESHOLD.
OnlyGamblingAt(data, i) ==
    LET walk == WalkOrder(data)
    IN  /\ IsGambling(walk[i])
        /\ ~MatchesCategoryRule(walk[i])
        /\ ~MatchesCountryRule(walk[i])
        /\ \A j \in DOMAIN walk \ {i} : ~MatchesSomeRule(walk[j])

GamblingRejects(h, pct) ==
    \/ h <= GAMBLING_HOP_LIMIT
    \/ h = 3 /\ pct > GAMBLING_CONTRIBUTION_THRESHOLD

C4_GamblingRule ==
    (Evaluated /\ ScoreBelowThreshold(response_data))
    => \A i \in DOMAIN WalkOrder(response_data) :
        OnlyGamblingAt(response_data, i)
        => LET h == HopsOf(WalkOrder(response_data)[i])
               pct == PctOf(WalkOrder(response_data)[i])
           IN  /\ (Result.decision = "Rejected") <=> GamblingRejects(h, pct)
               /\ h = GAMBLING_HOP_LIMIT => Result.decision = "Rejected"
               /\ (h = 3 /\ pct = GAMBLING_CONTRIBUTION_THRESHOLD)
                    => Result.decision = "Approved"
               /\ (h > GAMBLING_HOP_LIMIT /\ h > 3)
                    => Result.decision = "Approved"

\* Gambling at three hops with exactly the threshold has been approved.
C4_Witness ==
    /\ Evaluated
    /\ ScoreBelowThreshold(response_data)
    /\ \E i \in DOMAIN WalkOrder(response_data) :
        /\ OnlyGamblingAt(response_data, i)
        /\ HopsOf(WalkOrder(response_data)[i]) = 3
        /\ PctOf(WalkOrder(response_data)[i])
                = GAMBLING_CONTRIBUTION_THRESHOLD
    /\ Result.decision = "Approved"

\* C5: triggered_rules, Source list then Destination list, is the hits of
\* a prefix of the walk, each on its own side: up to and including the
\* contribution that fired when the walk rejected, the whole walk when it
\* approved.
HitsOfSide(walk, n, risk_type) ==
    LET Pick(i) == walk[i].risk_type = risk_type
        RECURSIVE Collect(_)
        Collect(i) ==
            IF i > n THEN <<>>
            ELSE IF Pick(i) THEN <<HitOf(walk[i])>> \o Collect(i + 1)
            ELSE Collect(i + 1)
    IN  Collect(1)

IsPrefixOfWalk(data, triggered, n) ==
    /\ triggered.Source = HitsOfSide(WalkOrder(data), n, "Source")
    /\ triggered.Destination = HitsOfSide(WalkOrder(data), n, "Destination")

C5_TriggeredRulesPrefix ==
    (Evaluated /\ ScoreBelowThreshold(response_data))
    => LET walk == WalkOrder(response_data)
           visited == Len(Result.triggered_rules.Source)
                        + Len(Result.triggered_rules.Destination)
       IN  /\ visited <= Len(walk)
           /\ IsPrefixOfWalk(response_data, Result.triggered_rules, visited)
           /\ Result.decision = "Approved" => visited = Len(walk)
           /\ Result.decision = "Rejected"
                => /\ visited >= 1
                   /\ MatchesSomeRule(walk[visited])
                   /\ \A j \in 1..(visited - 1) : ~MatchesSomeRule(walk[j])

\* A walk has stopped at its first Source contribution and left a
\* Destination contribution unvisited.
C5_Witness ==
    /\ Evaluated
    /\ ScoreBelowThreshold(response_data)
    /\ Result.decision = "Rejected"
    /\ Len(WalkOrder(response_data)) = 2
    /\ WalkOrder(response_data)[2].risk_type = "Destination"
    /\ Len(Result.triggered_rules.Source) = 1
    /\ Result.triggered_rules.Destination = <<>>

(***************************************************************************)
(* Properties of check_usage_limit (SpecDb).  ret holds the last call's    *)
(* argument and result, and is cleared by every other call and by the      *)
(* clock, so it is always a result for the current tables and time.  The   *)
(* counts are those get_usage_count computes.                              *)
(***************************************************************************)
Checked == ret # <<>> /\ "result" \in DOMAIN ret[1]
CheckedId == ret[1].telegram_id
CheckResult == ret[1].result
CheckedKnown == Checked /\ get_user(CheckedId) # <<>>

DailyCount(h) == get_usage_count(h, "day")
MonthlyCount(h) == get_usage_count(h, "month")
DailyLimit(h) == get_user(h)[1].daily_limit
MonthlyLimit(h) == get_user(h)[1].monthly_limit

\* C6: for a known identity whose daily count is at or above its daily
\* limit, the check denies with the daily-limit message and a remaining
\* daily figure of 0, whatever the monthly count is.
C6_DailyLimitFirst ==
    (CheckedKnown /\ DailyCount(CheckedId) >= DailyLimit(CheckedId))
    => /\ CheckResult.can_use = FALSE
       /\ CheckResult.message = MsgDaily
       /\ CheckResult.limit = DailyLimit(CheckedId)
       /\ CheckResult.remaining_daily = 0

\* Both limits are reached and the answer names the daily one.
C6_Witness ==
    /\ CheckedKnown
    /\ DailyCount(CheckedId) >= DailyLimit(CheckedId)
    /\ MonthlyCount(CheckedId) >= MonthlyLimit(CheckedId)
    /\ DailyLimit(CheckedId) >= 1
    /\ CheckResult.can_use = FALSE
    /\ CheckResult.message = MsgDaily

\* C7: for a known identity the check allows exactly when the daily count
\* is below the daily limit and the monthly count below the monthly limit,
\* and each remaining figure is max(0, limit - count): never negative, also
\* when a limit has been lowered below the count.
C7_AllowedIffBelowBoth ==
    CheckedKnown
    => LET h == CheckedId
           rd == DailyLimit(h) - DailyCount(h)
           rm == MonthlyLimit(h) - MonthlyCount(h)
       IN  /\ CheckResult.can_use
                <=> (DailyCount(h) < DailyLimit(h)
                        /\ MonthlyCount(h) < MonthlyLimit(h))
           /\ CheckResult.remaining_daily = (IF rd > 0 THEN rd ELSE 0)
           /\ CheckResult.remaining_monthly = (IF rm > 0 THEN rm ELSE 0)
           /\ CheckResult.remaining_daily >= 0
           /\ CheckResult.remaining_monthly >= 0

\* A limit now lies below the count and the remaining figure is 0.
C7_Witness ==
    /\ CheckedKnown
    /\ DailyCount(CheckedId) > DailyLimit(CheckedId)
    /\ MonthlyCount(CheckedId) < MonthlyLimit(CheckedId)
    /\ CheckResult.remaining_daily = 0
    /\ CheckResult.remaining_monthly > 0
    /\ CheckResult.can_use = FALSE

\* C8: a check for an identity without a row in users (never added, or
\* removed) answers not allowed with both remaining figures 0, and the step
\* that makes the check leaves every table as it was.
C8_UnknownIdentityDenied ==
    [][(ret' # <<>> /\ "result" \in DOMAIN ret'[1]
            /\ get_user(ret'[1].telegram_id) = <<>>)
        => /\ ret'[1].result.can_use = FALSE
           /\ ret'[1].result.message = MsgNotAuthorized
           /\ ret'[1].result.remaining_daily = 0
           /\ ret'[1].result.remaining_monthly = 0
           /\ UNCHANGED dbVars]_vars

\* The check has answered for an identity that was added, used the service
\* and was removed.
C8_Witness ==
    /\ Checked
    /\ get_user(CheckedId) = <<>>
    /\ nextId > 1
    /\ usage_logs # <<>>
    /\ CheckResult.can_use = FALSE
    /\ CheckResult.remaining_daily = 0
    /\ CheckResult.remaining_monthly = 0

(***************************************************************************)
(* Properties of the analysis handler (Spec).                              *)
(***************************************************************************)
\* The rows logged for the identity's current users row with a timestamp
\* t, from <= t <= now.
RowsSince(h, from) ==
    Cardinality({i \in DOMAIN usage_logs :
        /\ usage_logs[i].user_id = get_user(h)[1].id
        /\ usage_logs[i].timestamp >= from})

\* No handler is between its limit check and its record.
NoneInFlight == \A q \in Slots : reqs[q].pc # "analyzing"

\* C9: a known, active identity with daily limit L sends valid addresses
\* one request at a time, every API call succeeding.  While fewer than L
\* of its requests lie in the last 24 hours (and the monthly limit has
\* room) a request passes the check, and its analysis appends exactly one
\* usage row; once L lie strictly inside the last 24 hours the next request
\* is denied with the daily-limit message and a remaining daily figure of
\* 0, and does not go on to the API call.
C9_DailyQuotaScenario ==
    [][/\ \A p \in Slots, h \in Requesters :
            (Start(p, h, GoodAddress) /\ is_user_authorized(h)
                /\ NoneInFlight)
            => /\ (RowsSince(h, now - Day) < DailyLimit(h)
                    /\ RowsSince(h, now - Month) < MonthlyLimit(h))
                  => reqs'[p].pc = "analyzing"
               /\ RowsSince(h, now - Day + 1) >= DailyLimit(h)
                  => /\ reqs'[p].pc = "done"
                     /\ reqs'[p].outcome = "limit_reached"
                     /\ reqs'[p].limit.message = MsgDaily
                     /\ reqs'[p].limit.remaining_daily = 0
       /\ \A p \in Slots, data \in ApiResponses :
            (AnalyzeOk(p, data) /\ log_usage_ok(reqs[p].telegram_id))
            => /\ Len(usage_logs') = Len(usage_logs) + 1
               /\ usage_logs'[Len(usage_logs')].user_id
                    = get_user(reqs[p].telegram_id)[1].id]_vars

\* C10: the limit check and the record are separate steps and the record
\* does not look at the count again: the analysis of a request that passed
\* the check appends its usage row also when the identity's daily count has
\* meanwhile reached the daily limit, which leaves the count above it.
C10_RecordDoesNotRecheck ==
    [][\A p \in Slots, data \in ApiResponses :
        (AnalyzeOk(p, data) /\ log_usage_ok(reqs[p].telegram_id))
        => LET h == reqs[p].telegram_id
           IN  /\ Len(usage_logs') = Len(usage_logs) + 1
               /\ usage_logs'[Len(usage_logs')].user_id = get_user(h)[1].id
               /\ DailyCount(h) >= DailyLimit(h)
                    => DailyCount(h)' > DailyLimit(h)]_vars

\* Two handlers for one identity passed the check on the same usage_logs,
\* each told one request remained under a daily limit of 1, both have
\* recorded, and the daily count is above the limit.
C10_Witness ==
    \E p, q \in Slots :
        /\ p # q
        /\ reqs[p].telegram_id = reqs[q].telegram_id
        /\ reqs[p].outcome = "analyzed" /\ reqs[p].logged
        /\ reqs[q].outcome = "analyzed" /\ reqs[q].logged
        /\ reqs[p].rows_seen = reqs[q].rows_seen
        /\ reqs[p].limit.remaining_daily = 1
        /\ reqs[q].limit.remaining_daily = 1
        /\ get_user(reqs[p].telegram_id) # <<>>
        /\ DailyLimit(reqs[p].telegram_id) = 1
        /\ Len(usage_logs) = reqs[p].rows_seen + 2
        /\ DailyCount(reqs[p].telegram_id) > DailyLimit(reqs[p].telegram_id)

(***************************************************************************)
(* Properties of one analysis request at a time (SpecSeq).                 *)
(***************************************************************************)
LastError == error_logs[Len(error_logs)]

\* The remaining figures check_usage_limit would report for everyone.
Remaining(h) ==
    <<check_usage_limit(h).remaining_daily,
      check_usage_limit(h).remaining_monthly>>

\* C11: a request whose API call fails, whatever the failure, logs exactly
\* one error row of type API_ERROR and no usage row and ends without a
\* verdict; the remaining figures of the limit check are afterwards what
\* they were when the request passed the check.
C11_ApiFailureCostsNothing ==
    [][/\ \A e \in UpstreamErrors :
            SeqAnalyzeFailed(e)
            => /\ UNCHANGED dbVars
               /\ reqs'[1].pc = "api_failed_reply"
       /\ reqs[1].pc = "api_failed_reply"
            => /\ usage_logs' = usage_logs
               /\ reqs'[1].pc = "api_failed_reply"
                    \/ (reqs'[1].pc = "done" /\ reqs'[1].outcome = "api_error"
                        /\ ~reqs'[1].logged)
       /\ SeqLogApiError
            => /\ Len(error_logs') = Len(error_logs) + 1
               /\ LastError'.error_type = "API_ERROR"
               /\ LastError'.error_message = reqs[1].message
               /\ usage_logs' = usage_logs
               /\ users' = users
               /\ \A h \in Handles : Remaining(h)' = Remaining(h)
               /\ get_user(reqs[1].telegram_id) # <<>>
                    => Remaining(reqs[1].telegram_id)'
                        = <<reqs[1].limit.remaining_daily,
                            reqs[1].limit.remaining_monthly>>]_vars

\* A request of an identity with usage on record has failed on a reply that
\* was not a dictionary; one error row, the usage rows as before.
C11_Witness ==
    /\ reqs[1].pc = "done"
    /\ reqs[1].outcome = "api_error"
    /\ Len(error_logs) = 1
    /\ LastError.error_type = "API_ERROR"
    /\ LastError.error_message = "Invalid API response format"
    /\ Len(usage_logs) = 1
    /\ get_user(reqs[1].telegram_id) # <<>>
    /\ Remaining(reqs[1].telegram_id)
        = <<DailyLimit(reqs[1].telegram_id) - 1,
            MonthlyLimit(reqs[1].telegram_id) - 1>>

\* An address as the patterns of the validator describe one: 26 to 90
\* letters and digits.
WellFormed(address) ==
    address.length >= 26 /\ address.length <= 90 /\ address.alnum

Counts(h) == <<get_usage_count(h, "day"), get_usage_count(h, "month")>>

\* C12: the request of an authorized identity with an address that is not
\* well formed goes no further than the validation: it logs one error row
\* of type VALIDATION_ERROR and no usage row, never reaches the API call or
\* the rules, and leaves every identity's daily and monthly count as it was.
C12_InvalidAddressCostsNothing ==
    [][/\ \A h \in Requesters, a \in AllAddresses :
            (SeqStart(h, a) /\ is_user_authorized(h) /\ ~WellFormed(a))
            => /\ reqs'[1].pc = "validation_reply"
               /\ reqs'[1].wallet_address = a
               /\ UNCHANGED dbVars
       /\ reqs[1].pc = "validation_reply"
            => /\ usage_logs' = usage_logs
               /\ reqs'[1].pc = "validation_reply"
                    \/ (reqs'[1].pc = "done"
                        /\ reqs'[1].outcome = "invalid_address"
                        /\ ~reqs'[1].logged)
       /\ SeqLogValidationError
            => /\ Len(error_logs') = Len(error_logs) + 1
               /\ LastError'.error_type = "VALIDATION_ERROR"
               /\ LastError'.wallet_address = reqs[1].wallet_address
               /\ usage_logs' = usage_logs
               /\ users' = users
               /\ \A h \in Handles : Counts(h)' = Counts(h)]_vars

\* An identity with usage on record has sent an address with a character
\* no pattern allows; one error row, the count as before.
C12_Witness ==
    /\ reqs[1].pc = "done"
    /\ reqs[1].outcome = "invalid_address"
    /\ Len(error_logs) = 1
    /\ LastError.error_type = "VALIDATION_ERROR"
    /\ LastError.wallet_address = SymbolAddress
    /\ LastError.user_id # <<>>
    /\ Len(usage_logs) = 1
    /\ Counts(reqs[1].telegram_id) = <<1, 1>>

(***************************************************************************)
(* Properties of the bot with handlers interleaving (Spec).                *)
(***************************************************************************)
KnownActive(h) == users[h] # <<>> /\ users[h][1].is_active

\* The handler in slot p has gone on to the API call, or come back from it.
PastTheGates(req) ==
    \/ req.pc \in {"analyzing", "api_failed_reply"}
    \/ req.pc = "done" /\ req.outcome \in {"analyzed", "api_error"}

\* C13 as stated: a request goes on to the API call, and from there to the
\* rules, only from a start at which the identity was known and active and
\* the limit check allowed it; the request of an unknown or inactive
\* identity ends as not authorized and every request of an identity at a
\* limit ends with the limit message, neither touching a table.
C13_AsStated ==
    [][\A p \in Slots, h \in Requesters, a \in Addresses :
            Start(p, h, a)
            => /\ UNCHANGED dbVars
               /\ ~KnownActive(h)
                    => /\ reqs'[p].pc = "done"
                       /\ reqs'[p].outcome = "not_authorized"
               /\ (KnownActive(h) /\ ~check_usage_limit(h).can_use)
                    => /\ reqs'[p].pc = "done"
                       /\ reqs'[p].outcome = "limit_reached"
                       /\ reqs'[p].limit.message \in {MsgDaily, MsgMonthly}
               /\ reqs'[p].pc = "analyzing"
                    => /\ KnownActive(h)
                       /\ check_usage_limit(h).can_use]_vars

\* C13, amended: as above, with the limit message for an identity at a
\* limit whose address is well formed (an address that is not is turned
\* away by the validation, which comes before the limit check).
C13_GatesBeforeApi ==
    [][/\ \A p \in Slots, h \in Requesters, a \in Addresses :
            Start(p, h, a)
            => /\ UNCHANGED dbVars
               /\ ~KnownActive(h)
                    => /\ reqs'[p].pc = "done"
                       /\ reqs'[p].outcome = "not_authorized"
               /\ (KnownActive(h) /\ WellFormed(a)
                        /\ ~check_usage_limit(h).can_use)
                    => /\ reqs'[p].pc = "done"
                       /\ reqs'[p].outcome = "limit_reached"
                       /\ reqs'[p].limit.message \in {MsgDaily, MsgMonthly}
               /\ reqs'[p].pc = "analyzing"
                    => /\ KnownActive(h)
                       /\ WellFormed(a)
                       /\ check_usage_limit(h).can_use
                       /\ reqs'[p].limit = check_usage_limit(h)
       /\ \A p \in Slots :
            (PastTheGates(reqs'[p]) /\ reqs'[p] # reqs[p])
            => \/ reqs[p].pc = "analyzing" /\ reqs[p].limit.can_use
               \/ reqs[p].pc = "api_failed_reply"
               \/ /\ reqs'[p].pc = "analyzing"
                  /\ KnownActive(reqs'[p].telegram_id)
                  /\ check_usage_limit(reqs'[p].telegram_id).can_use]_vars

\* An identity that exists and is inactive has been turned away, and a
\* request has been turned away at the daily limit, with nothing logged
\* for either.
C13_Witness ==
    \E p, q \in Slots :
        /\ reqs[p].pc = "done" /\ reqs[p].outcome = "not_authorized"
        /\ users[reqs[p].telegram_id] # <<>>
        /\ ~users[reqs[p].telegram_id][1].is_active
        /\ reqs[q].pc = "done" /\ reqs[q].outcome = "limit_reached"
        /\ reqs[q].limit.message = MsgDaily
        /\ Len(usage_logs) = 1
        /\ error_logs = <<>>

AdminRecord == users[ADMIN_TELEGRAM_ID]

\* C14: from the bootstrap on, whatever commands and requests have run in
\* whatever order, users holds a row for the configured administrator with
\* is_admin set; a /removeuser naming the administrator changes no table.
C14_AdminAlwaysPresent ==
    /\ [](AdminRecord # <<>> /\ AdminRecord[1].is_admin)
    /\ [][\A c \in Handles :
            removeuser_command(c, ADMIN_TELEGRAM_ID)
            => UNCHANGED dbVars]_vars

\* Users have been added, limited, served and removed, and the
\* administrator's row is the one the bootstrap wrote.
C14_Witness ==
    /\ AdminRecord = <<UserRow(1, ADMIN_TELEGRAM_ID, TRUE, 999, 9999)>>
    /\ nextId > 2
    /\ \E h \in Requesters : users[h] = <<>>
    /\ \E i \in DOMAIN usage_logs : usage_logs[i].user_id # 1
    /\ \E p \in Slots : reqs[p].pc = "analyzing"

(***************************************************************************)
(* Properties of the users and usage_logs tables (SpecDb).                 *)
(***************************************************************************)
AddAnswered == ret # <<>> /\ "added" \in DOMAIN ret[1]

\* C15: users holds at most one row per handle (it is a function of the
\* handle, and every row's id is one the sequence has already passed, so a
\* new row never takes the id of another); add_user for a handle that has
\* a row reports failure and leaves the row, with its flags and limits,
\* and the id sequence as they were, so of two adds of one handle the
\* second fails.
C15_OneRecordPerHandle ==
    /\ [](\A h \in Handles : users[h] # <<>> => users[h][1].id < nextId)
    /\ [][\A h \in DbClients :
            CallAddUser(h)
            => IF users[h] # <<>>
               THEN /\ ~ret'[1].added
                    /\ UNCHANGED dbVars
               ELSE /\ ret'[1].added
                    /\ users'[h] = <<UserRow(nextId, h, FALSE,
                                             DEFAULT_DAILY_LIMIT,
                                             DEFAULT_MONTHLY_LIMIT)>>
                    /\ \A g \in Handles \ {h} : users'[g] = users[g]]_vars

\* An add has failed on a handle whose row is inactive and has limits other
\* than the ones the add carried; the row is still that one.
C15_Witness ==
    /\ AddAnswered
    /\ ~ret[1].added
    /\ users[ret[1].telegram_id] # <<>>
    /\ ~users[ret[1].telegram_id][1].is_active
    /\ users[ret[1].telegram_id][1].daily_limit # DEFAULT_DAILY_LIMIT
    /\ users[ret[1].telegram_id][1].id = 1
    /\ nextId = 2

(***************************************************************************)
(* Properties of the usage_logs table under the bot (Spec).                *)
(***************************************************************************)
\* The rows of usage_logs that belong to no row of users.
OrphanRows ==
    {i \in DOMAIN usage_logs :
        \A h \in Handles :
            users[h] = <<>> \/ users[h][1].id # usage_logs[i].user_id}

\* C16: usage_logs only grows at its end: whatever step the bot takes (a
\* request that is turned away, fails or is analysed, adduser, removeuser,
\* setlimit, a change of is_active, the clock), every row that was in the
\* table is still there, in its place and with its fields as they were.
C16_UsageLogAppendOnly ==
    [][/\ Len(usage_logs') >= Len(usage_logs)
       /\ \A i \in DOMAIN usage_logs : usage_logs'[i] = usage_logs[i]]_vars

\* A row is still in the table after its user was removed.
C16_Witness ==
    /\ OrphanRows # {}
    /\ \E i \in OrphanRows : users[usage_logs[i].telegram_id] = <<>>

(***************************************************************************)
(* Properties of get_usage_count (SpecDb).                                 *)
(***************************************************************************)
\* The usage rows ever logged for the handle whose timestamp lies in the
\* window that ends now.
EventsInWindow(h, window) ==
    Cardinality({i \in DOMAIN usage_logs :
        /\ usage_logs[i].telegram_id = h
        /\ now - window <= usage_logs[i].timestamp
        /\ usage_logs[i].timestamp <= now})

\* C17: for every handle that has a users row, at every moment,
\* get_usage_count for the day is the number of usage rows ever logged for
\* the handle in the last 24 hours, and for the month the number in the
\* last 30 x 24 hours, whatever adds, removals, limit changes and records
\* came before.
C17_CountIsEventsInWindow ==
    \A h \in Handles :
        get_user(h) # <<>>
        => /\ get_usage_count(h, "day") = EventsInWindow(h, Day)
           /\ get_usage_count(h, "month") = EventsInWindow(h, Month)

(***************************************************************************)
(* Properties of the record of an analysis (SpecSeq).                      *)
(***************************************************************************)
LastUsage == usage_logs[Len(usage_logs)]

\* C18: a request whose API call succeeded, whatever the reply and
\* whichever return of apply_compliance_rules it ends in, adds exactly one
\* usage row when the requester has a users row at that moment: the row is
\* the requester's and holds the address sent, the reply's risk score
\* (none for a reply without one) and the decision, Approved or Rejected
\* with its reason; the rows before it stay, and the request ends analysed.
C18_OneUsageRowPerAnalysis ==
    [][\A data \in UpstreamResponses :
        (SeqAnalyzeOk(data) /\ get_user(reqs[1].telegram_id) # <<>>)
        => LET verdict == apply_compliance_rules(data)
           IN  /\ Len(usage_logs') = Len(usage_logs) + 1
               /\ \A i \in DOMAIN usage_logs : usage_logs'[i] = usage_logs[i]
               /\ LastUsage'.telegram_id = reqs[1].telegram_id
               /\ LastUsage'.user_id = get_user(reqs[1].telegram_id)[1].id
               /\ LastUsage'.wallet_address = reqs[1].wallet_address
               /\ LastUsage'.risk_score = data.risk_score
               /\ LastUsage'.timestamp = now
               /\ verdict.decision \in {"Approved", "Rejected"}
               /\ LastUsage'.decision.head = verdict.decision
               /\ LastUsage'.decision.reason =
                    IF verdict.decision = "Rejected"
                    THEN <<verdict.reason>> ELSE <<>>
               /\ reqs'[1].pc = "done"
               /\ reqs'[1].outcome = "analyzed"
               /\ reqs'[1].logged]_vars

\* Two analyses are on record, a rejection and then the approval of a
\* reply without a risk score, and the request that made the second has
\* ended.
C18_Witness ==
    /\ Len(usage_logs) = 2
    /\ usage_logs[1].decision.head = "Rejected"
    /\ LastUsage.decision.head = "Approved"
    /\ LastUsage.risk_score = <<>>
    /\ reqs[1].pc = "done"
    /\ reqs[1].outcome = "analyzed"
    /\ reqs[1].logged
    /\ LastUsage.telegram_id = reqs[1].telegram_id

(***************************************************************************)
(* Properties of the record when the user was removed meanwhile (Spec).    *)
(***************************************************************************)
\* C19: when a request that passed the limit check comes back from a
\* successful API call, it ends analysed, with its verdict, whether or not
\* its user still has a users row.  If the row was removed in between,
\* log_usage answers False and adds nothing, and no error row is written;
\* if the row is there, log_usage answers True and adds one usage row for
\* the requester.
C19_RecordAfterRemoval ==
    [][\A p \in Slots, data \in ApiResponses :
        AnalyzeOk(p, data)
        => /\ reqs[p].limit.can_use
           /\ reqs'[p].pc = "done"
           /\ reqs'[p].outcome = "analyzed"
           /\ error_logs' = error_logs
           /\ users' = users
           /\ IF users[reqs[p].telegram_id] = <<>>
              THEN /\ usage_logs' = usage_logs
                   /\ ~reqs'[p].logged
              ELSE /\ Len(usage_logs') = Len(usage_logs) + 1
                   /\ usage_logs'[Len(usage_logs')].telegram_id
                        = reqs[p].telegram_id
                   /\ reqs'[p].logged]_vars

\* A request passed the check, its user was removed, and it has ended
\* analysed without a usage row.
C19_Witness ==
    \E p \in Slots :
        /\ reqs[p].pc = "done"
        /\ reqs[p].outcome = "analyzed"
        /\ reqs[p].limit.can_use
        /\ ~reqs[p].logged
        /\ users[reqs[p].telegram_id] = <<>>
        /\ Len(usage_logs) = reqs[p].rows_seen

(***************************************************************************)
(* Properties of the order of the rules on one contribution (SpecEval).    *)
(***************************************************************************)
\* The first contribution of the walk that meets a rejection condition.
FirstMatch(data) ==
    LET walk == WalkOrder(data)
    IN  walk[CHOOSE i \in DOMAIN walk :
                /\ MatchesSomeRule(walk[i])
                /\ \A j \in 1..(i - 1) : ~MatchesSomeRule(walk[j])]

\* The first code of the contribution's country list that is high-risk.
FirstHighRiskCode(item) ==
    LET codes == CodesOf(item)
    IN  codes[CHOOSE i \in DOMAIN codes :
                /\ codes[i] \in HIGH_RISK_COUNTRIES
                /\ \A j \in 1..(i - 1) : codes[j] \notin HIGH_RISK_COUNTRIES]

\* The contribution meets at least two of the three conditions.
MatchesSeveralRules(item) ==
    \/ MatchesCategoryRule(item) /\ MatchesCountryRule(item)
    \/ MatchesCategoryRule(item) /\ MatchesGamblingRule(item)
    \/ MatchesCountryRule(item) /\ MatchesGamblingRule(item)

\* C20: when the contribution that rejects an assessment meets more than
\* one rejection condition, the reason is the category's if the category
\* rule applies, else the country's if the country rule applies, else the
\* gambling one; and a country reason names the first code of the
\* contribution's list, in list order, that is a high-risk country.
C20_RuleOrderWithinContribution ==
    (Evaluated /\ ScoreBelowThreshold(response_data)
        /\ \E i \in DOMAIN WalkOrder(response_data) :
                MatchesSomeRule(WalkOrder(response_data)[i]))
    => LET item == FirstMatch(response_data)
           category == CategoryName(item.category_id)
       IN  /\ Result.decision = "Rejected"
           /\ MatchesSeveralRules(item)
              => IF MatchesCategoryRule(item)
                 THEN Result.reason = ReasonCategory(category, HopsOf(item))
                 ELSE Result.reason
                        = ReasonCountry(FirstHighRiskCode(item), HopsOf(item))
           /\ (~MatchesCategoryRule(item) /\ MatchesCountryRule(item))
              => Result.reason
                    = ReasonCountry(FirstHighRiskCode(item), HopsOf(item))

\* A Gambling contribution within the gambling hop limit whose country
\* list is US, RU, IR was rejected for the country RU.
C20_Witness ==
    /\ Evaluated
    /\ ScoreBelowThreshold(response_data)
    /\ WalkOrder(response_data) # <<>>
    /\ LET item == WalkOrder(response_data)[1]
       IN  /\ MatchesCountryRule(item)
           /\ MatchesGamblingRule(item)
           /\ CodesOf(item) = <<"US", "RU", "IR">>
           /\ Result.reason = ReasonCountry("RU", HopsOf(item))

(***************************************************************************)
(* Properties of the walk over several contributions (SpecEval).           *)
(***************************************************************************)
\* The contributions of the walk that meet a rejection condition.
Matching(data) ==
    {i \in DOMAIN WalkOrder(data) : MatchesSomeRule(WalkOrder(data)[i])}

\* The reason the conditions of the spec give for one contribution.
ReasonOf(item) ==
    LET category == CategoryName(item.category_id)
    IN  IF MatchesCategoryRule(item)
        THEN ReasonCategory(category, HopsOf(item))
        ELSE IF MatchesCountryRule(item)
        THEN ReasonCountry(FirstHighRiskCode(item), HopsOf(item))
        ELSE IF HopsOf(item) <= GAMBLING_HOP_LIMIT
        THEN ReasonGambling(category, HopsOf(item))
        ELSE ReasonGambling3(category, HopsOf(item), PctOf(item))

\* C21: when several contributions of an assessment with a score below the
\* threshold each meet a rejection condition, the verdict is the rejection
\* of the one that comes first in the walk (Source before Destination,
\* then exposures, matched elements and contributions as given); the
\* contributions after it leave no trace in triggered_rules, and a
\* rejection in Source leaves the Destination list empty.
C21_FirstMatchInWalkWins ==
    (Evaluated /\ ScoreBelowThreshold(response_data)
        /\ Cardinality(Matching(response_data)) >= 2)
    => LET walk == WalkOrder(response_data)
           first == CHOOSE i \in Matching(response_data) :
                        \A j \in Matching(response_data) : i <= j
       IN  /\ Result.decision = "Rejected"
           /\ Result.reason = ReasonOf(walk[first])
           /\ Len(Result.triggered_rules.Source)
                + Len(Result.triggered_rules.Destination) = first
           /\ walk[first].risk_type = "Source"
                => Result.triggered_rules.Destination = <<>>

\* A Source contribution and a Destination contribution each meet a
\* condition, with different reasons; the verdict is the Source one's.
C21_Witness ==
    /\ Evaluated
    /\ ScoreBelowThreshold(response_data)
    /\ Matching(response_data) = {1, 2}
    /\ LET walk == WalkOrder(response_data)
       IN  /\ walk[1].risk_type = "Source"
           /\ walk[2].risk_type = "Destination"
           /\ ReasonOf(walk[1]) # ReasonOf(walk[2])
           /\ Result.reason = ReasonOf(walk[1])
           /\ Result.triggered_rules.Destination = <<>>

(***************************************************************************)
(* Properties of the counts against the limits (SpecQuotaSeq, SpecQuota).  *)
(***************************************************************************)
\* The usage rows logged for the handle with a timestamp t, w <= t and
\* t < w + window.
EventsFrom(h, w, window) ==
    Cardinality({i \in DOMAIN usage_logs :
        /\ usage_logs[i].telegram_id = h
        /\ w <= usage_logs[i].timestamp
        /\ usage_logs[i].timestamp < w + window})

\* The most usage rows of the handle that any window of the length holds:
\* such a window can be taken to open at one of the rows.
MostEvents(h, window) ==
    LET counts == {EventsFrom(h, usage_logs[i].timestamp, window) :
                    i \in DOMAIN usage_logs} \cup {0}
    IN  CHOOSE n \in counts : \A m \in counts : m <= n

\* C22: with the requests served one at a time, the limits set before the
\* first of them and nobody removed, no 24 hours hold more usage rows of a
\* user than the user's daily limit, and no 30 days more than the monthly
\* limit.
C22_NeverOverLimitOneAtATime ==
    \A h \in Requesters :
        users[h] # <<>>
        => /\ MostEvents(h, Day) <= DailyLimit(h)
           /\ MostEvents(h, Month) <= MonthlyLimit(h)

\* C23: with at most MaxInFlight requests in flight at once, the limits set
\* before the first of them and nobody removed, no 24 hours hold more
\* usage rows of a user than the daily limit and MaxInFlight - 1, and no
\* 30 days more than the monthly limit and MaxInFlight - 1.
C23_OvershootBoundedByInFlight ==
    \A h \in Requesters :
        users[h] # <<>>
        => /\ MostEvents(h, Day) <= DailyLimit(h) + MaxInFlight - 1
           /\ MostEvents(h, Month) <= MonthlyLimit(h) + MaxInFlight - 1

(***************************************************************************)
(* Properties of the limit check as time passes (SpecDb).                  *)
(***************************************************************************)
\* The usage rows ever logged for the handle.
RowsOf(h) == {i \in DOMAIN usage_logs : usage_logs[i].telegram_id = h}

\* The user has as many usage rows under its users row as its daily limit
\* or more: what a daily denial was given for.
ReachedDailyLimit(h) ==
    Cardinality({i \in RowsOf(h) :
                    usage_logs[i].user_id = get_user(h)[1].id})
        >= DailyLimit(h)

\* C24: when check_usage_limit answers for a user with a daily limit of at
\* least 1 whose usage rows had reached that limit, the newest of them
\* now more than 24 hours old, the daily count is 0 and the answer is not
\* the daily denial: it allows exactly when the count of the last 30 days
\* is below the monthly limit.
C24_DailyQuotaRecovers ==
    (/\ CheckedKnown
     /\ DailyLimit(CheckedId) >= 1
     /\ ReachedDailyLimit(CheckedId)
     /\ \A i \in RowsOf(CheckedId) : now - usage_logs[i].timestamp > Day)
    => /\ DailyCount(CheckedId) = 0
       /\ CheckResult.message # MsgDaily
       /\ CheckResult.can_use
            <=> MonthlyCount(CheckedId) < MonthlyLimit(CheckedId)

(***************************************************************************)
(* Properties of the statistics reply (SpecQuotaSeq).                      *)
(***************************************************************************)
\* The usage rows of the handle in the last 30 days with the decision head.
RecentWith(h, head) ==
    {i \in RowsOf(h) :
        /\ usage_logs[i].timestamp >= now - Month
        /\ usage_logs[i].decision.head = head}

\* C25: the figures stats_command replies with agree with usage_logs: the
\* Approved figure is the number of the caller's usage rows of the last 30
\* days whose decision is Approved, the Rejected figure the number whose
\* decision is a rejection, and the two add up to the number of the
\* caller's usage rows of the last 30 days.
C25_StatsAgreeWithLog ==
    [][\A h \in Handles :
        (QuotaSeqStats(h) /\ ret'[1].stats # <<>>)
        => LET reply == ret'[1].stats[1]
               approved == Cardinality(RecentWith(h, "Approved"))
               rejected == Cardinality(RecentWith(h, "Rejected"))
           IN  /\ reply.approved = approved
               /\ reply.rejected = rejected
               /\ reply.approved + reply.rejected = approved + rejected]_vars

====
